---- MODULE Spec2Model ----
(***************************************************************************)
(* Synq chat backend: the room membership and message lifecycle.           *)
(*                                                                         *)
(* The durable store (Room, RoomMember and Message collections) is the     *)
(* state; every REST controller and socket handler is a task that          *)
(* advances one store access at a time, so handlers interleave exactly at  *)
(* their awaits.  Strings are sequences of UTF-16 code units.  Dates are   *)
(* milliseconds on the clock `now`.  `sockets` are the connections of the  *)
(* socket server and what each is subscribed to.                           *)
(***************************************************************************)
EXTENDS Integers, Sequences, FiniteSets, TLC

VARIABLES now, rooms, members, messages, tasks, resp, sockets, online

dbVars == <<rooms, members, messages>>
\* the connected sockets, and the users whose isOnline is true
netVars == <<sockets, online>>
vars == <<now, rooms, members, messages, tasks, resp, sockets, online>>

(***************************************************************************)
(* Bounds of the model and constants of the program.                       *)
(***************************************************************************)
MaxTicks == 1
MaxMsgs == 2

\* messageModel.js:159: "messages read in the last second"
ReadWindowMs == 1000
\* the clock advances in steps that leave the read window
TickMs == ReadWindowMs + 1

\* an unset Date field (leftAt, deliveredAt, readAt)
Null == -1

Tasks == {1, 2}

(***************************************************************************)
(* Strings.                                                                *)
(***************************************************************************)
toLowerCaseUnit(c) == IF c >= 65 /\ c <= 90 THEN c + 32 ELSE c

toLowerCase(s) == [i \in 1..Len(s) |-> toLowerCaseUnit(s[i])]

\* the default comparison of Array.prototype.sort: by code units
RECURSIVE StrLess(_, _)
StrLess(x, y) ==
  IF y = <<>> THEN FALSE
  ELSE IF x = <<>> THEN TRUE
  ELSE IF x[1] # y[1] THEN x[1] < y[1]
  ELSE StrLess(Tail(x), Tail(y))

\* [x, y].sort()
sortPair(x, y) == IF StrLess(y, x) THEN <<y, x>> ELSE <<x, y>>

\* "room:"
RoomPrefix == <<114, 111, 111, 109, 58>>
\* "_"
Underscore == <<95>>
\* "group_"
GroupTag == <<103, 114, 111, 117, 112, 95>>

RECURSIVE Digits(_)
Digits(n) == IF n < 10 THEN <<48 + n>> ELSE Digits(n \div 10) \o <<48 + (n % 10)>>

getRoomId_Unsorted(username1, username2) ==
  RoomPrefix \o toLowerCase(username1) \o Underscore \o toLowerCase(username2)

getRoomId(username1, username2) ==
  LET sortedUsers == sortPair(toLowerCase(username1), toLowerCase(username2))
  IN RoomPrefix \o sortedUsers[1] \o Underscore \o sortedUsers[2]

groupRoomId(timestamp) == RoomPrefix \o GroupTag \o Digits(timestamp)

(***************************************************************************)
(* Users.  The User collection is fixed: three registered users, whose     *)
(* usernames are stored lower-cased (userModel.js lowercase: true).        *)
(***************************************************************************)
Users == {"amy", "bob", "cat"}

\* "amy", "bob", "cat"
UsernameOf(u) ==
  CASE u = "amy" -> <<97, 109, 121>>
    [] u = "bob" -> <<98, 111, 98>>
    [] u = "cat" -> <<99, 97, 116>>

\* "dan": no such user
UnknownName == <<100, 97, 110>>

\* the username with its first letter in upper case ("Amy")
Capitalized(s) == [i \in 1..Len(s) |-> IF i = 1 THEN s[i] - 32 ELSE s[i]]

\* the username in upper case ("AMY")
UpperCased(s) == [i \in 1..Len(s) |-> s[i] - 32]

CaseVariants(u) == {UsernameOf(u), Capitalized(UsernameOf(u)), UpperCased(UsernameOf(u))}

\* User.findOne({ username }): the set holding the user of that name, or {}
UserByName(name) == {u \in Users : UsernameOf(u) = name}

\* User.find({ username: { $in: names } })
UsersByNames(names) == {u \in Users : \E i \in 1..Len(names) : UsernameOf(u) = names[i]}

(***************************************************************************)
(* The store.                                                              *)
(***************************************************************************)
\* Room.findOne({ roomId })
RoomByRoomId(roomId) == {r \in rooms : r.roomId = roomId}

GroupByRoomId_AnyType(roomId) == {r \in rooms : r.roomId = roomId}

\* Room.findOne({ roomId, type: "group" })
GroupByRoomId(roomId) == {r \in rooms : r.roomId = roomId /\ r.type = "group"}

\* the unique index of roomSchema.roomId
RoomIdTaken(roomId) == \E r \in rooms : r.roomId = roomId

\* a fresh ObjectId: any value no other document of the collection has
NewRoomOid(roomId) == <<roomId, Cardinality(RoomByRoomId(roomId)) + 1>>

NoRoom == <<>>

NewRoom(roomId, type, createdBy) ==
  [id |-> NewRoomOid(roomId), roomId |-> roomId, type |-> type,
   createdBy |-> createdBy, lastMessage |-> <<>>, lastMessageAt |-> now]

isActive(m) == m.leftAt = Null

RowsOf(room, user) == {m \in members : m.room = room /\ m.user = user}

ActiveRows(room) == {m \in members : m.room = room /\ isActive(m)}

ActiveAdmins(room) == {m \in ActiveRows(room) : m.role = "admin"}

isUserInRoom_AnyRow(room, user) == RowsOf(room, user) # {}

\* isUserInRoom: RoomMember.findOne({ roomId, userId, leftAt: null })
isUserInRoom(room, user) == \E m \in RowsOf(room, user) : isActive(m)

MembershipTaken_NoUniqueIndex(room, user) == FALSE

\* roomMemberSchema.index({ roomId: 1, userId: 1 }, { unique: true })
MembershipTaken(room, user) == RowsOf(room, user) # {}

NewMemberOid(room, user) == <<room, user, Cardinality(RowsOf(room, user)) + 1>>

NoRow == <<>>

NewMember(room, user, role) ==
  [id |-> NewMemberOid(room, user), room |-> room, user |-> user, role |-> role,
   unreadCount |-> 0, lastReadAt |-> now, joinedAt |-> now, leftAt |-> Null]

\* doc.save() of a loaded document: $set of the modified paths, by _id
SaveMember(id, upd) ==
  {IF m.id = id THEN [f \in DOMAIN m |-> IF f \in DOMAIN upd THEN upd[f] ELSE m[f]] ELSE m
     : m \in members}

(***************************************************************************)
(* Tasks: one per request or event being handled.  `resp` is what the step *)
(* just taken sent: the HTTP response of a request, the emissions of an    *)
(* event, or nothing.                                                      *)
(***************************************************************************)
Idle == [op |-> "idle", pc |-> "idle"]

Free(t) == tasks[t] = Idle

InFlight == {t \in Tasks : ~Free(t)}

\* task slots are interchangeable: the lowest free one takes the request,
\* and at most k handlers run at once
Admit(t, k) ==
  /\ Free(t)
  /\ \A s \in Tasks : s < t => ~Free(s)
  /\ Cardinality(InFlight) < k

At(t, op, pc) == tasks[t].op = op /\ tasks[t].pc = pc

NoResp == [op |-> "none", status |-> 0]

\* a handshake without userId
NoUser == ""

SocketIds == {1, 2}

\* a socket that is not connected: in no room, with no handler registered
ClosedSocket == [open |-> FALSE, userId |-> NoUser, personal |-> {}, rooms |-> {},
                 handlers |-> FALSE]

NoSockets == [s \in SocketIds |-> ClosedSocket]

\* the handler goes on to its next store access
Goto(t, rec) ==
  /\ tasks' = [tasks EXCEPT ![t] = rec]
  /\ resp' = NoResp
  /\ UNCHANGED netVars

\* the handler answers and ends
Answer(t, r) ==
  /\ tasks' = [tasks EXCEPT ![t] = Idle]
  /\ resp' = r
  /\ UNCHANGED netVars

With(rec, upd) ==
  [f \in DOMAIN rec \cup DOMAIN upd |-> IF f \in DOMAIN upd THEN upd[f] ELSE rec[f]]

\* sendSuccess / sendFail / the global error handler
Response(op, status) == [op |-> op, status |-> status]

(***************************************************************************)
(* POST /api/rooms/dm                                                      *)
(***************************************************************************)
\* sendSuccess(res, 200, { data: { room } })
DMAnswer(me, status, room) ==
  With(Response("dm", status), [userId |-> me.userId, otherId |-> me.otherId, room |-> room])

\* createOrGetDM up to findRoomById: User.findOne, the self check, getRoomId
StartDM(t, userId, username, otherUsername) ==
  /\ LET other == UserByName(toLowerCase(otherUsername))
         roomId == getRoomId(username, otherUsername)
         found == RoomByRoomId(roomId)
     IN IF otherUsername = <<>> THEN Answer(t, Response("dm", 400))
        ELSE IF other = {} THEN Answer(t, Response("dm", 404))
        ELSE IF other = {userId} THEN Answer(t, Response("dm", 400))
        ELSE LET me == [op |-> "dm", pc |-> "dm_room", userId |-> userId,
                        otherId |-> CHOOSE o \in other : TRUE,
                        roomId |-> roomId, room |-> NoRoom, pending |-> {}]
             IN IF found # {}
                  THEN \E r \in found : Answer(t, DMAnswer(me, 200, r.id))
                  ELSE Goto(t, me)
  /\ UNCHANGED <<now, dbVars>>

\* Room.create({ roomId, type: "dm", createdBy })
DMCreateRoom(t) ==
  /\ At(t, "dm", "dm_room")
  /\ LET me == tasks[t]
     IN IF RoomIdTaken(me.roomId)
          THEN /\ Answer(t, Response(tasks[t].op, 500))
               /\ UNCHANGED rooms
          ELSE /\ rooms' = rooms \cup {NewRoom(me.roomId, "dm", me.userId)}
               /\ Goto(t, With(me, [pc |-> "dm_members", room |-> NewRoomOid(me.roomId),
                                    pending |-> {me.userId, me.otherId}]))
  /\ UNCHANGED <<now, members, messages>>

\* RoomMember.create([...]): one save per document, in no fixed order
DMCreateMember(t, u) ==
  /\ At(t, "dm", "dm_members")
  /\ u \in tasks[t].pending
  /\ LET me == tasks[t]
         rest == me.pending \ {u}
     IN IF MembershipTaken(me.room, u)
          THEN /\ Answer(t, Response(tasks[t].op, 500))
               /\ UNCHANGED members
          ELSE /\ members' = members \cup {NewMember(me.room, u, "member")}
               /\ IF rest = {} THEN Answer(t, DMAnswer(me, 200, me.room))
                  ELSE Goto(t, With(me, [pending |-> rest]))
  /\ UNCHANGED <<now, rooms, messages>>

(***************************************************************************)
(* POST /api/rooms/group                                                   *)
(***************************************************************************)
\* createGroup up to createGroupRoom's Room.create
StartCreateGroup(t, userId, name, memberUsernames) ==
  /\ LET found == UsersByNames([i \in 1..Len(memberUsernames) |->
                                  toLowerCase(memberUsernames[i])])
         memberIds == found \cup {userId}
         roomId == groupRoomId(now)
     IN IF name = <<>> \/ Len(memberUsernames) < 2
          THEN /\ Answer(t, Response("group", 400))
               /\ UNCHANGED rooms
        ELSE IF Cardinality(found) # Len(memberUsernames)
          THEN /\ Answer(t, Response("group", 404))
               /\ UNCHANGED rooms
        ELSE IF RoomIdTaken(roomId)
          THEN /\ Answer(t, Response("group", 500))
               /\ UNCHANGED rooms
        ELSE /\ rooms' = rooms \cup {NewRoom(roomId, "group", userId)}
             /\ Goto(t, [op |-> "group", pc |-> "cg_members", userId |-> userId,
                         room |-> NewRoomOid(roomId), memberIds |-> memberIds,
                         pending |-> memberIds])
  /\ UNCHANGED <<now, members, messages>>

CreatorRole_AllMembers(u, creatorId) == "member"

\* role: userId.toString() === creatorId.toString() ? "admin" : "member"
CreatorRole(u, creatorId) == IF u = creatorId THEN "admin" ELSE "member"

\* RoomMember.create(memberDocs): one save per document, in no fixed order
CreateGroupMember(t, u) ==
  /\ At(t, "group", "cg_members")
  /\ u \in tasks[t].pending
  /\ LET me == tasks[t]
         rest == me.pending \ {u}
     IN IF MembershipTaken(me.room, u)
          THEN /\ Answer(t, Response(tasks[t].op, 500))
               /\ UNCHANGED members
          ELSE /\ members' = members \cup {NewMember(me.room, u, CreatorRole(u, me.userId))}
               /\ IF rest = {} THEN Answer(t, With(Response("group", 201), [room |-> me.room]))
                  ELSE Goto(t, With(me, [pending |-> rest]))
  /\ UNCHANGED <<now, rooms, messages>>

(***************************************************************************)
(* POST /api/rooms/:roomId/members                                         *)
(***************************************************************************)
\* sendSuccess(res, 200, { addedCount, reactivatedCount })
AddAnswer(me) ==
  With(Response("add", 200), [addedCount |-> me.created, reactivatedCount |-> me.reactivated])

\* addGroupMembers up to the loop: Room.findOne, the admin check and User.find
StartAddMembers(t, roomId, userId, usernames) ==
  /\ LET room == GroupByRoomId(roomId)
         users == UsersByNames([i \in 1..Len(usernames) |-> toLowerCase(usernames[i])])
     IN IF usernames = <<>> THEN Answer(t, Response("add", 400))
        ELSE IF room = {} THEN Answer(t, Response("add", 404))
        ELSE LET r == CHOOSE x \in room : TRUE
             IN IF ~\E m \in ActiveAdmins(r.id) : m.user = userId
                  THEN Answer(t, Response("add", 403))
                ELSE IF Cardinality(users) # Len(usernames)
                  THEN Answer(t, Response("add", 404))
                ELSE Goto(t, [op |-> "add", pc |-> "add_find", room |-> r.id,
                              users |-> users,
                              pending |-> users, cur |-> "", row |-> NoRow, at |-> 0,
                              created |-> 0, reactivated |-> 0])
  /\ UNCHANGED <<now, dbVars>>

\* for (const user of users): RoomMember.findOne({ roomId, userId })
AddFindExisting(t, u) ==
  /\ At(t, "add", "add_find")
  /\ u \in tasks[t].pending
  /\ LET me == tasks[t]
         rest == me.pending \ {u}
         existing == RowsOf(me.room, u)
     IN IF existing = {}
          THEN Goto(t, With(me, [pc |-> "add_create", cur |-> u, pending |-> rest]))
          ELSE \E e \in existing :
                 IF ~isActive(e)
                   THEN Goto(t, With(me, [pc |-> "add_save", cur |-> u, row |-> e.id,
                                          at |-> now, pending |-> rest]))
                 ELSE IF rest = {} THEN Answer(t, AddAnswer(me))
                 ELSE Goto(t, With(me, [pending |-> rest]))
  /\ UNCHANGED <<now, dbVars>>

AddReactivate_CountOnly(t) ==
  /\ At(t, "add", "add_save")
  /\ LET me == tasks[t]
         next == With(me, [pc |-> "add_find", reactivated |-> me.reactivated + 1,
                           cur |-> "", row |-> NoRow, at |-> 0])
     IN IF me.pending = {} THEN Answer(t, AddAnswer(next)) ELSE Goto(t, next)
  /\ UNCHANGED <<now, dbVars>>

AddReactivate_AsNew(t) ==
  /\ At(t, "add", "add_save")
  /\ LET me == tasks[t]
         next == With(me, [pc |-> "add_find", reactivated |-> me.reactivated + 1,
                           cur |-> "", row |-> NoRow, at |-> 0])
     IN /\ members' = SaveMember(me.row, [leftAt |-> Null, joinedAt |-> me.at,
                                          role |-> "member", unreadCount |-> 0])
        /\ IF me.pending = {} THEN Answer(t, AddAnswer(next)) ELSE Goto(t, next)
  /\ UNCHANGED <<now, rooms, messages>>

\* existing.leftAt = null; existing.joinedAt = new Date(); await existing.save()
AddReactivate(t) ==
  /\ At(t, "add", "add_save")
  /\ LET me == tasks[t]
         next == With(me, [pc |-> "add_find", reactivated |-> me.reactivated + 1,
                           cur |-> "", row |-> NoRow, at |-> 0])
     IN /\ members' = SaveMember(me.row, [leftAt |-> Null, joinedAt |-> me.at])
        /\ IF me.pending = {} THEN Answer(t, AddAnswer(next)) ELSE Goto(t, next)
  /\ UNCHANGED <<now, rooms, messages>>

\* RoomMember.create({ roomId, userId, role: "member" })
AddCreate(t) ==
  /\ At(t, "add", "add_create")
  /\ LET me == tasks[t]
         next == With(me, [pc |-> "add_find", created |-> me.created + 1, cur |-> ""])
     IN IF MembershipTaken(me.room, me.cur)
          THEN /\ Answer(t, Response(tasks[t].op, 500))
               /\ UNCHANGED members
          ELSE /\ members' = members \cup {NewMember(me.room, me.cur, "member")}
               /\ IF me.pending = {} THEN Answer(t, AddAnswer(next)) ELSE Goto(t, next)
  /\ UNCHANGED <<now, rooms, messages>>

(***************************************************************************)
(* DELETE /api/rooms/:roomId/members                                       *)
(***************************************************************************)
\* removeGroupMember up to the update: Room.findOne, the admin check,
\* User.findOne and the self check
StartRemoveMember(t, roomId, userId, username) ==
  /\ LET room == GroupByRoomId(roomId)
         userToRemove == UserByName(toLowerCase(username))
     IN IF username = <<>> THEN Answer(t, Response("remove", 400))
        ELSE IF room = {} THEN Answer(t, Response("remove", 404))
        ELSE LET r == CHOOSE x \in room : TRUE
             IN IF ~\E m \in ActiveAdmins(r.id) : m.user = userId
                  THEN Answer(t, Response("remove", 403))
                ELSE IF userToRemove = {} THEN Answer(t, Response("remove", 404))
                ELSE IF userToRemove = {userId} THEN Answer(t, Response("remove", 400))
                ELSE Goto(t, [op |-> "remove", pc |-> "rm_update", room |-> r.id,
                              target |-> CHOOSE u \in userToRemove : TRUE])
  /\ UNCHANGED <<now, dbVars>>

RemoveUpdate_Delete(t) ==
  /\ At(t, "remove", "rm_update")
  /\ LET me == tasks[t]
         active == {m \in RowsOf(me.room, me.target) : isActive(m)}
     IN IF active = {}
          THEN /\ Answer(t, Response(tasks[t].op, 404))
               /\ UNCHANGED members
          ELSE \E m \in active :
                 /\ members' = members \ {m}
                 /\ Answer(t, Response(tasks[t].op, 200))
  /\ UNCHANGED <<now, rooms, messages>>

\* RoomMember.findOneAndUpdate({ roomId, userId, leftAt: null }, { leftAt: new Date() })
RemoveUpdate(t) ==
  /\ At(t, "remove", "rm_update")
  /\ LET me == tasks[t]
         active == {m \in RowsOf(me.room, me.target) : isActive(m)}
     IN IF active = {}
          THEN /\ Answer(t, Response(tasks[t].op, 404))
               /\ UNCHANGED members
          ELSE \E m \in active :
                 /\ members' = SaveMember(m.id, [leftAt |-> now])
                 /\ Answer(t, Response(tasks[t].op, 200))
  /\ UNCHANGED <<now, rooms, messages>>

(***************************************************************************)
(* POST /api/rooms/:roomId/leave                                           *)
(***************************************************************************)
\* leaveGroup up to the save: Room.findOne and
\* RoomMember.findOne({ roomId, userId, leftAt: null })
StartLeave(t, roomId, userId) ==
  /\ LET room == GroupByRoomId(roomId)
     IN IF room = {} THEN Answer(t, Response("leave", 404))
        ELSE LET r == CHOOSE x \in room : TRUE
                 mine == {m \in RowsOf(r.id, userId) : isActive(m)}
             IN IF mine = {} THEN Answer(t, Response("leave", 404))
                ELSE \E m \in mine :
                       Goto(t, [op |-> "leave", pc |-> "lv_save", room |-> r.id,
                                row |-> m.id, at |-> now,
                                isAdminLeaving |-> m.role = "admin", oldest |-> NoRow])
  /\ UNCHANGED <<now, dbVars>>

\* membership.leftAt = new Date(); await membership.save()
LeaveSave(t) ==
  /\ At(t, "leave", "lv_save")
  /\ LET me == tasks[t]
     IN /\ members' = SaveMember(me.row, [leftAt |-> me.at])
        /\ IF me.isAdminLeaving THEN Goto(t, With(me, [pc |-> "lv_admins"]))
           ELSE Answer(t, Response("leave", 200))
  /\ UNCHANGED <<now, rooms, messages>>

\* RoomMember.find({ roomId, role: "admin", leftAt: null })
LeaveFindAdmins(t) ==
  /\ At(t, "leave", "lv_admins")
  /\ LET me == tasks[t]
     IN IF ActiveAdmins(me.room) = {} THEN Goto(t, With(me, [pc |-> "lv_oldest"]))
        ELSE Answer(t, Response("leave", 200))
  /\ UNCHANGED <<now, dbVars>>

OldestMembers_Unsorted(room) == ActiveRows(room)

\* RoomMember.findOne({ roomId, leftAt: null }).sort({ joinedAt: 1 }); equal
\* joinedAt leaves the choice to the store
OldestMembers(room) ==
  {m \in ActiveRows(room) : \A o \in ActiveRows(room) : m.joinedAt <= o.joinedAt}

LeaveFindOldest(t) ==
  /\ At(t, "leave", "lv_oldest")
  /\ LET me == tasks[t]
     IN IF OldestMembers(me.room) = {} THEN Answer(t, Response(tasks[t].op, 200))
        ELSE \E m \in OldestMembers(me.room) :
               Goto(t, With(me, [pc |-> "lv_promote", oldest |-> m.id]))
  /\ UNCHANGED <<now, dbVars>>

LeavePromote_Skip(t) ==
  /\ At(t, "leave", "lv_promote")
  /\ Answer(t, Response(tasks[t].op, 200))
  /\ UNCHANGED <<now, dbVars>>

\* oldestMember.role = "admin"; await oldestMember.save()
LeavePromote(t) ==
  /\ At(t, "leave", "lv_promote")
  /\ members' = SaveMember(tasks[t].oldest, [role |-> "admin"])
  /\ Answer(t, Response(tasks[t].op, 200))
  /\ UNCHANGED <<now, rooms, messages>>

(***************************************************************************)
(* The Message collection: the documents in creation order, the _id of a   *)
(* document its position.                                                  *)
(***************************************************************************)
IsWhiteSpace(c) == c \in {9, 10, 11, 12, 13, 32}

RECURSIVE trimStart(_)
trimStart(s) == IF s # <<>> /\ IsWhiteSpace(Head(s)) THEN trimStart(Tail(s)) ELSE s

RECURSIVE trimEnd(_)
trimEnd(s) ==
  IF s # <<>> /\ IsWhiteSpace(s[Len(s)]) THEN trimEnd(SubSeq(s, 1, Len(s) - 1)) ELSE s

\* String.prototype.trim
trim(s) == trimEnd(trimStart(s))

\* String.prototype.substring(start, end), 0 <= start <= end
substring(s, start, end) == SubSeq(s, start + 1, IF end < Len(s) THEN end ELSE Len(s))

\* Message.create({ senderId, roomId, text, status: "Sent" })
NewMessage(senderId, roomId, text) ==
  [id |-> Len(messages) + 1, senderId |-> senderId, roomId |-> roomId, text |-> text,
   status |-> "Sent", createdAt |-> now, deliveredAt |-> Null, readAt |-> Null]

MessageExists(messageId) == messageId \in 1..Len(messages)

\* an update of the documents with these ids
UpdateMessages(ids, upd) ==
  [i \in 1..Len(messages) |-> IF i \in ids THEN With(messages[i], upd) ELSE messages[i]]

\* the filter of Message.markAsRead: { _id: { $in: ids }, status: { $ne: "Read" } }
NotYetRead(ids) == {i \in 1..Len(messages) : i \in ids /\ messages[i].status # "Read"}

\* the filter of the updateMany of Message.markRoomAsRead
RoomUnread(roomId, userId) ==
  {i \in 1..Len(messages) : /\ messages[i].roomId = roomId
                            /\ messages[i].senderId # userId
                            /\ messages[i].status # "Read"}

\* the filter of the find of Message.markRoomAsRead
RecentlyRead(roomId, userId) ==
  {i \in 1..Len(messages) : /\ messages[i].roomId = roomId
                            /\ messages[i].senderId # userId
                            /\ messages[i].status = "Read"
                            /\ messages[i].readAt # Null
                            /\ messages[i].readAt >= now - ReadWindowMs}

OthersActive_WithSender(room, senderId) ==
  {m \in members : m.room = room /\ isActive(m)}

\* the filter of RoomMember.incrementUnreadForOthers
OthersActive(room, senderId) ==
  {m \in members : m.room = room /\ m.user # senderId /\ m.leftAt = Null}

ReadTarget_WholeRoom(roomId, userId) ==
  {m \in members : \E r \in RoomByRoomId(roomId) : m.room = r.id}

\* the filter of the findOneAndUpdate of RoomMember.markAsRead
ReadTarget(roomId, userId) ==
  {m \in members : \E r \in RoomByRoomId(roomId) :
                     m.room = r.id /\ m.user = userId /\ m.leftAt = Null}

\* RoomMember.markAsRead: { unreadCount: 0, lastReadAt: new Date() }
ResetUnread(roomId, userId) ==
  {IF m \in ReadTarget(roomId, userId)
     THEN With(m, [unreadCount |-> 0, lastReadAt |-> now]) ELSE m : m \in members}

(***************************************************************************)
(* Socket events.  What a handler emits is in `resp`: the event, its       *)
(* payload and, for a broadcast, the room it goes to.                      *)
(***************************************************************************)
\* socket.emit("error", { message })
SocketError(op, message) == [op |-> op, event |-> "error", message |-> message]

\* chatHandlers.js:130: substring(0, 100)
LastMessageLen == 100

\* handleSendMessage up to isUserInRoom
StartSendMessage(t, roomId, userId, text) ==
  /\ Len(messages) + Cardinality({s \in Tasks : At(s, "send_message", "sm_create")}) < MaxMsgs
  /\ LET found == RoomByRoomId(roomId)
     IN IF roomId = <<>> \/ text = <<>> \/ trim(text) = <<>>
          THEN Answer(t, SocketError("send_message", "Invalid message data"))
        ELSE IF found = {}
          THEN Answer(t, SocketError("send_message", "Room not found"))
        ELSE \E r \in found :
               IF ~isUserInRoom(r.id, userId)
                 THEN Answer(t, SocketError("send_message", "You are not a member of this room"))
                 ELSE Goto(t, [op |-> "send_message", pc |-> "sm_create", roomId |-> roomId,
                               userId |-> userId, text |-> text, room |-> r.id,
                               message |-> Null])
  /\ UNCHANGED <<now, dbVars>>

\* messageModel.js:20: maxlength: [500, "Message cannot exceed 500 characters"]
MaxTextLen == 500

\* catch (error): socket.emit("error", { message: "Failed to send message", error })
SendMessageFailed(error) ==
  With(SocketError("send_message", "Failed to send message"), [error |-> error])

\* Message.create: the schema trims the text and then validates its length; a
\* validation error is thrown before anything is written
SendMessageCreate(t) ==
  /\ At(t, "send_message", "sm_create")
  /\ LET me == tasks[t]
         message == NewMessage(me.userId, me.roomId, trim(me.text))
     IN IF Len(trim(message.text)) > MaxTextLen
          THEN /\ Answer(t, SendMessageFailed("Message cannot exceed 500 characters"))
               /\ UNCHANGED messages
          ELSE /\ messages' = Append(messages, message)
               /\ Goto(t, With(me, [pc |-> "sm_room", message |-> message.id]))
  /\ UNCHANGED <<now, rooms, members>>

\* Room.findByIdAndUpdate(room._id, { lastMessage, lastMessageAt })
SendMessageUpdateRoom(t) ==
  /\ At(t, "send_message", "sm_room")
  /\ LET me == tasks[t]
     IN /\ rooms' = {IF r.id = me.room
                       THEN With(r, [lastMessage |-> substring(trim(me.text), 0, LastMessageLen),
                                     lastMessageAt |-> now])
                       ELSE r : r \in rooms}
        /\ Goto(t, With(me, [pc |-> "sm_unread"]))
  /\ UNCHANGED <<now, members, messages>>

SendMessageIncrement_Set(t) ==
  /\ At(t, "send_message", "sm_unread")
  /\ LET me == tasks[t]
     IN /\ members' = {IF m \in OthersActive(me.room, me.userId)
                         THEN With(m, [unreadCount |-> 1])
                         ELSE m : m \in members}
        /\ Answer(t, [op |-> "send_message", event |-> "receive_message", to |-> me.roomId,
                      id |-> me.message, senderId |-> me.userId, roomId |-> me.roomId,
                      status |-> "Sent"])
  /\ UNCHANGED <<now, rooms, messages>>

\* RoomMember.incrementUnreadForOthers, then io.to(roomId).emit("receive_message")
\* with the fields of the document Message.create returned
SendMessageIncrement(t) ==
  /\ At(t, "send_message", "sm_unread")
  /\ LET me == tasks[t]
     IN /\ members' = {IF m \in OthersActive(me.room, me.userId)
                         THEN With(m, [unreadCount |-> m.unreadCount + 1])
                         ELSE m : m \in members}
        /\ Answer(t, [op |-> "send_message", event |-> "receive_message", to |-> me.roomId,
                      id |-> me.message, senderId |-> me.userId, roomId |-> me.roomId,
                      status |-> "Sent"])
  /\ UNCHANGED <<now, rooms, messages>>

SendMessageCatch_LogOnly(t) ==
  /\ tasks[t].op = "send_message"
  /\ Answer(t, NoResp)
  /\ UNCHANGED <<now, dbVars>>

\* a store access of handleSendMessage rejects: the catch block answers
SendMessageCatch(t) ==
  /\ tasks[t].op = "send_message"
  /\ Answer(t, SendMessageFailed("store"))
  /\ UNCHANGED <<now, dbVars>>

\* handleMessageDelivered: Message.markAsDelivered, then the broadcast
handleMessageDelivered(messageId, roomId) ==
  /\ IF messageId = Null
       THEN /\ resp' = SocketError("message_delivered", "Message ID is required")
            /\ UNCHANGED messages
     ELSE IF ~MessageExists(messageId)
       THEN /\ resp' = SocketError("message_delivered", "Message not found")
            /\ UNCHANGED messages
     ELSE /\ messages' = UpdateMessages({messageId}, [status |-> "Delivered", deliveredAt |-> now])
          /\ resp' = [op |-> "message_delivered", event |-> "message_status_update",
                      to |-> roomId, messageId |-> messageId, status |-> "Delivered"]
  /\ UNCHANGED <<now, rooms, members, tasks, netVars>>

\* const ids = messageIds || [messageId]
RequestIds(data) ==
  IF "messageIds" \in DOMAIN data THEN data.messageIds ELSE {data.messageId}

\* handleMessageRead: Message.markAsRead(ids), then the broadcast of ids
handleMessageRead(data, roomId) ==
  /\ LET ids == RequestIds(data)
     IN IF ids = {}
          THEN /\ resp' = SocketError("message_read", "Message ID(s) required")
               /\ UNCHANGED messages
          ELSE /\ messages' = UpdateMessages(NotYetRead(ids), [status |-> "Read", readAt |-> now])
               /\ resp' = [op |-> "message_read", event |-> "message_status_update",
                           to |-> roomId, messageIds |-> ids, status |-> "Read"]
  /\ UNCHANGED <<now, rooms, members, tasks, netVars>>

\* handleMarkRoomRead up to the updateMany of Message.markRoomAsRead;
\* `modified` are the documents result.modifiedCount counts
StartMarkRoomRead(t, roomId, userId) ==
  /\ IF roomId = <<>>
       THEN /\ Answer(t, SocketError("mark_room_read", "Room ID and User ID required"))
            /\ UNCHANGED messages
       ELSE LET modified == RoomUnread(roomId, userId)
            IN /\ messages' = UpdateMessages(modified, [status |-> "Read", readAt |-> now])
               /\ Goto(t, [op |-> "mark_room_read", pc |-> "mrr_find", roomId |-> roomId,
                           userId |-> userId, modified |-> modified, messageIds |-> {}])
  /\ UNCHANGED <<now, rooms, members>>

\* the find of Message.markRoomAsRead: what the call returns as messageIds
MarkRoomReadFind(t) ==
  /\ At(t, "mark_room_read", "mrr_find")
  /\ LET me == tasks[t]
     IN Goto(t, With(me, [pc |-> "mrr_member",
                          messageIds |-> RecentlyRead(me.roomId, me.userId)]))
  /\ UNCHANGED <<now, dbVars>>

\* RoomMember.markAsRead(roomId, userId), then the broadcast of
\* result.messageIds (if any) and unread_reset to the socket
MarkRoomReadMember(t) ==
  /\ At(t, "mark_room_read", "mrr_member")
  /\ LET me == tasks[t]
     IN IF RoomByRoomId(me.roomId) = {}
          THEN /\ Answer(t, SocketError("mark_room_read", "Room not found"))
               /\ UNCHANGED members
        ELSE IF ReadTarget(me.roomId, me.userId) = {}
          THEN /\ Answer(t, SocketError("mark_room_read", "You are not a member of this room"))
               /\ UNCHANGED members
        ELSE /\ members' = ResetUnread(me.roomId, me.userId)
             /\ Answer(t, [op |-> "mark_room_read", event |-> "unread_reset",
                           roomId |-> me.roomId, userId |-> me.userId, unreadCount |-> 0,
                           messageIds |-> me.messageIds])
  /\ UNCHANGED <<now, rooms, messages>>

(***************************************************************************)
(* POST /:roomId/read                                                      *)
(***************************************************************************)
\* markAsRead: RoomMember.markAsRead(roomId, userId); a throw is a 500
RestMarkAsRead(roomId, userId) ==
  /\ IF ReadTarget(roomId, userId) = {}
       THEN /\ resp' = With(Response("read", 500), [roomId |-> roomId, userId |-> userId])
            /\ UNCHANGED members
       ELSE /\ members' = ResetUnread(roomId, userId)
            /\ resp' = With(Response("read", 200),
                            [roomId |-> roomId, userId |-> userId, unreadCount |-> 0])
  /\ UNCHANGED <<now, rooms, messages, tasks, netVars>>

(***************************************************************************)
(* A store access that fails: the handler throws and answers 500.          *)
(***************************************************************************)
StoreFail(t) ==
  /\ ~Free(t)
  /\ Answer(t, Response(tasks[t].op, 500))
  /\ UNCHANGED <<now, dbVars>>

\* time passes
Tick ==
  /\ now < MaxTicks * TickMs
  /\ now' = now + TickMs
  /\ resp' = NoResp
  /\ UNCHANGED <<dbVars, tasks, netVars>>

Init ==
  /\ now = 0
  /\ rooms = {}
  /\ members = {}
  /\ messages = <<>>
  /\ tasks = [t \in Tasks |-> Idle]
  /\ resp = NoResp
  /\ sockets = NoSockets
  /\ online = {}

(***************************************************************************)
(* Requests.                                                               *)
(***************************************************************************)
\* the roomIds a client can name: those of the rooms that exist
KnownRoomIds == {r.roomId : r \in rooms}

KnownGroupIds == {r.roomId : r \in {x \in rooms : x.type = "group"}}

Names == {UsernameOf(u) : u \in Users}

\* memberUsernames / usernames of a request body
NameLists == {<<x>> : x \in Names} \cup {<<x, y>> : x \in Names, y \in Names}

\* the same, without the lists that differ only in the order of their names
FewNameLists ==
  {<<x>> : x \in Names} \cup {l \in {<<x, y>> : x \in Names, y \in Names} : StrLess(l[1], l[2])}

GroupName == <<103>>

RestGroupStart(t, roomIds, creators, lists) ==
  \/ \E u \in creators, l \in lists : StartCreateGroup(t, u, GroupName, l)
  \/ \E r \in roomIds, u \in Users, l \in lists : StartAddMembers(t, r, u, l)
  \/ \E r \in roomIds, u \in Users, n \in Names : StartRemoveMember(t, r, u, n)
  \/ \E r \in roomIds, u \in Users : StartLeave(t, r, u)

RestGroupStep(t) ==
  \/ \E u \in Users : CreateGroupMember(t, u)
  \/ \E u \in Users : AddFindExisting(t, u)
  \/ AddReactivate(t)
  \/ AddCreate(t)
  \/ RemoveUpdate(t)
  \/ LeaveSave(t)
  \/ LeaveFindAdmins(t)
  \/ LeaveFindOldest(t)
  \/ LeavePromote(t)

(***************************************************************************)
(* SpecSeq: the group endpoints, one request at a time, no store failure.  *)
(***************************************************************************)
NextSeq ==
  \/ \E t \in Tasks : Admit(t, 1) /\ RestGroupStart(t, KnownRoomIds, Users, NameLists)
  \/ \E t \in Tasks : RestGroupStep(t)

SpecSeq == Init /\ [][NextSeq]_vars

(***************************************************************************)
(* SpecRace: a group is created by a request that runs alone; leave,       *)
(* addMembers and removeMember requests then interleave, two at a time, at *)
(* their store accesses.                                                   *)
(***************************************************************************)
CreatingGroup == \E t \in Tasks : tasks[t].op = "group" /\ ~Free(t)

RaceStart(t, lists) ==
  \/ /\ Admit(t, 1)
     /\ \E u \in Users, l \in lists : StartCreateGroup(t, u, GroupName, l)
  \/ /\ Admit(t, 2)
     /\ ~CreatingGroup
     /\ \/ \E r \in KnownRoomIds, u \in Users, l \in lists : StartAddMembers(t, r, u, l)
        \/ \E r \in KnownRoomIds, u \in Users, n \in Names : StartRemoveMember(t, r, u, n)
        \/ \E r \in KnownRoomIds, u \in Users : StartLeave(t, r, u)

NextRace ==
  \/ \E t \in Tasks : RaceStart(t, FewNameLists)
  \/ \E t \in Tasks : RestGroupStep(t)

SpecRace == Init /\ [][NextRace]_vars

(***************************************************************************)
(* SpecMix: every endpoint that writes RoomMember rows, two requests       *)
(* interleaving at their store accesses.                                   *)
(***************************************************************************)
DMPair == {"amy", "bob"}

PairLists == {<<UsernameOf("cat")>>, <<UsernameOf("amy"), UsernameOf("bob")>>}

DMStep(t) ==
  \/ DMCreateRoom(t)
  \/ \E u \in Users : DMCreateMember(t, u)

NextMix ==
  \/ \E t \in Tasks : Admit(t, 2) /\ RestGroupStart(t, KnownGroupIds, DMPair, PairLists)
  \/ \E t \in Tasks : RestGroupStep(t)
  \/ \E t \in Tasks, u \in DMPair, o \in DMPair :
       Admit(t, 2) /\ StartDM(t, u, UsernameOf(u), UsernameOf(o))
  \/ \E t \in Tasks : DMStep(t)

SpecMix == Init /\ [][NextMix]_vars

(***************************************************************************)
(* The admin rule of group rooms.                                          *)
(***************************************************************************)
GroupRooms == {r \in rooms : r.type = "group"}

HasAdminIfMembers(r) == ActiveRows(r.id) # {} => ActiveAdmins(r.id) # {}

\* C2: with the group requests handled one after another, whenever no
\* request is being handled every group room that has an active member has
\* an active admin.
C2_AdminAfterLeaves == InFlight = {} => \A r \in GroupRooms : HasAdminIfMembers(r)

\* a leave of the only admin has been answered, and the member promoted in
\* its place is not the creator of the group
C2_Witness ==
  /\ InFlight = {}
  /\ resp = Response("leave", 200)
  /\ \E r \in GroupRooms :
       /\ \E m \in members : m.room = r.id /\ m.user = r.createdBy /\ ~isActive(m)
       /\ \E m \in ActiveAdmins(r.id) : m.user # r.createdBy
       /\ Cardinality(ActiveRows(r.id)) = 2

\* C3: once interleaved leave, addMembers and removeMember requests on a
\* group have all been answered, the group has an active admin if it has an
\* active member.
C3_AdminAfterRaces == InFlight = {} => \A r \in GroupRooms : HasAdminIfMembers(r)

\* C4: there is at most one RoomMember row per (room, user).
C4_OneRowPerPair ==
  \A m1 \in members, m2 \in members :
    (m1.room = m2.room /\ m1.user = m2.user) => m1 = m2

\* a user who left a group has been added again, and so has a new user,
\* while a DM room exists
C4_Witness ==
  /\ resp.op = "add" /\ resp.status = 200 /\ resp.reactivatedCount = 1
  /\ \E r \in rooms : r.type = "dm" /\ Cardinality(ActiveRows(r.id)) = 2
  /\ \E r \in GroupRooms : Cardinality(ActiveRows(r.id)) = 3

(***************************************************************************)
(* SpecDM: POST /api/rooms/dm, two requests interleaving at their store    *)
(* accesses, any store access failing.  The body's username and            *)
(* otherUsername come in any letter case.                                  *)
(***************************************************************************)
AnyCaseNames == UNION {CaseVariants(u) : u \in DMPair}

NextDM ==
  \/ \E t \in Tasks, u \in DMPair :
       \E x \in CaseVariants(u), y \in AnyCaseNames \cup {UsernameOf("cat"), UnknownName} :
         Admit(t, 2) /\ StartDM(t, u, x, y)
  \/ \E t \in Tasks : DMStep(t)
  \/ \E t \in Tasks : StoreFail(t)

SpecDM == Init /\ [][NextDM]_vars

\* every room identifier that joins the two usernames, in either order and
\* in any letter case
PairRoomIds(u, v) ==
  {RoomPrefix \o x \o Underscore \o y : x \in CaseVariants(u), y \in CaseVariants(v)}
    \cup {RoomPrefix \o y \o Underscore \o x : x \in CaseVariants(u), y \in CaseVariants(v)}

DMRoomsOf(u, v) == {r \in rooms : r.roomId \in PairRoomIds(u, v)}

\* C9: the room identifier a request computes from (caller, other), in the
\* letter case given, is the one computed from (other, caller); the store
\* holds at most one Room per pair of users and at most one RoomMember row
\* for each of the two, and a request answered with a room is answered with
\* that Room.
C9_SameDMRoom ==
  /\ \A t \in Tasks :
       tasks[t].op = "dm" =>
         \A x \in CaseVariants(tasks[t].userId), y \in CaseVariants(tasks[t].otherId) :
           /\ tasks[t].roomId = getRoomId(y, x)
           /\ getRoomId(x, y) = getRoomId(y, x)
  /\ \A u \in Users : \A v \in Users \ {u} :
       /\ Cardinality(DMRoomsOf(u, v)) <= 1
       /\ \A r \in DMRoomsOf(u, v) :
            /\ Cardinality({m \in members : m.room = r.id}) <= 2
            /\ \A m \in members : m.room = r.id => m.user \in {u, v}
  /\ (resp.op = "dm" /\ resp.status = 200) =>
       \E r \in DMRoomsOf(resp.userId, resp.otherId) : r.id = resp.room

\* bob's request finds the room that amy's request created, with two rooms
\* in the store
C9_Witness ==
  /\ resp.op = "dm" /\ resp.status = 200
  /\ resp.userId = "bob" /\ resp.otherId = "amy"
  /\ \E r \in rooms : r.id = resp.room /\ r.createdBy = "amy"
  /\ Cardinality({m \in members : m.room = resp.room}) = 2
  /\ tasks = [t \in Tasks |-> Idle]
  /\ Cardinality(rooms) = 2

DMRoomComplete(r) ==
  \E u \in Users : \E v \in Users \ {u} :
    /\ r.roomId = getRoomId(UsernameOf(u), UsernameOf(v))
    /\ isUserInRoom(r.id, u)
    /\ isUserInRoom(r.id, v)

\* C10: every DM Room has both of its users as active members, and a request
\* answered with a room is answered with one in which caller and other user
\* are active members.
C10_DMCreationAtomic ==
  /\ \A r \in rooms : r.type = "dm" => DMRoomComplete(r)
  /\ (resp.op = "dm" /\ resp.status = 200) =>
       /\ isUserInRoom(resp.room, resp.userId)
       /\ isUserInRoom(resp.room, resp.otherId)

(***************************************************************************)
(* The socket events and the read acknowledgment of the REST API run on a  *)
(* store that createOrGetDM, createGroup and leaveGroup have filled: the   *)
(* DM of amy and bob, and a group of amy (admin) and bob that cat has      *)
(* left.                                                                   *)
(***************************************************************************)
GroupId == groupRoomId(0)

DMId == getRoomId(UsernameOf("amy"), UsernameOf("bob"))

RoomDoc(roomId, type, createdBy) ==
  [id |-> <<roomId, 1>>, roomId |-> roomId, type |-> type, createdBy |-> createdBy,
   lastMessage |-> <<>>, lastMessageAt |-> 0]

MemberDoc(roomId, user, role, leftAt) ==
  [id |-> <<<<roomId, 1>>, user, 1>>, room |-> <<roomId, 1>>, user |-> user, role |-> role,
   unreadCount |-> 0, lastReadAt |-> 0, joinedAt |-> 0, leftAt |-> leftAt]

DMDocs == {MemberDoc(DMId, "amy", "member", Null), MemberDoc(DMId, "bob", "member", Null)}

GroupDocs ==
  {MemberDoc(GroupId, "amy", "admin", Null), MemberDoc(GroupId, "bob", "member", Null),
   MemberDoc(GroupId, "cat", "member", 0)}

InitStore(rs, ms) ==
  /\ now = 0
  /\ rooms = rs
  /\ members = ms
  /\ messages = <<>>
  /\ tasks = [t \in Tasks |-> Idle]
  /\ resp = NoResp
  /\ sockets = NoSockets
  /\ online = {}

\* "room:", the roomId of no room
UnknownRoomId == RoomPrefix

\* the roomId of an event: missing, of no room, or of a room
EventRoomIds == {<<>>, UnknownRoomId} \cup KnownRoomIds

\* "", " ", " hi"
Texts == {<<>>, <<32>>, <<32, 104, 105>>}

\* { messageIds: [...] } or { messageId }, the id possibly missing
ReadRequests ==
  {[messageIds |-> ids] : ids \in SUBSET (1..MaxMsgs)}
    \cup {[messageId |-> id] : id \in (1..MaxMsgs) \cup {Null}}

SendMessageStart(k) ==
  \E t \in Tasks, roomId \in EventRoomIds, userId \in Users, text \in Texts :
    Admit(t, k) /\ StartSendMessage(t, roomId, userId, text)

MarkRoomReadStart(k) ==
  \E t \in Tasks, roomId \in EventRoomIds, userId \in Users :
    Admit(t, k) /\ StartMarkRoomRead(t, roomId, userId)

(***************************************************************************)
(* SpecStatus: the message lifecycle in the DM of amy and bob, one         *)
(* multi-step handler at a time.                                           *)
(***************************************************************************)
InitStatus == InitStore({RoomDoc(DMId, "dm", "amy")}, DMDocs)

NextStatus ==
  \/ SendMessageStart(1)
  \/ \E t \in Tasks : SendMessageCreate(t)
  \/ \E t \in Tasks : SendMessageUpdateRoom(t)
  \/ \E t \in Tasks : SendMessageIncrement(t)
  \/ \E messageId \in (1..MaxMsgs) \cup {Null}, roomId \in KnownRoomIds :
       handleMessageDelivered(messageId, roomId)
  \/ \E data \in ReadRequests, roomId \in KnownRoomIds : handleMessageRead(data, roomId)
  \/ MarkRoomReadStart(1)
  \/ \E t \in Tasks : MarkRoomReadFind(t)
  \/ \E t \in Tasks : MarkRoomReadMember(t)

SpecStatus == InitStatus /\ [][NextStatus]_vars

(***************************************************************************)
(* SpecWindow: amy sends to the DM, amy and bob open it, two handlers at   *)
(* once, and time passes.                                                  *)
(***************************************************************************)
NextWindow ==
  \/ \E t \in Tasks : Admit(t, 2) /\ StartSendMessage(t, DMId, "amy", <<104, 105>>)
  \/ \E t \in Tasks : SendMessageCreate(t)
  \/ \E t \in Tasks : SendMessageUpdateRoom(t)
  \/ \E t \in Tasks : SendMessageIncrement(t)
  \/ \E t \in Tasks, userId \in DMPair : Admit(t, 2) /\ StartMarkRoomRead(t, DMId, userId)
  \/ \E t \in Tasks : MarkRoomReadFind(t)
  \/ \E t \in Tasks : MarkRoomReadMember(t)
  \/ Tick

SpecWindow == InitStatus /\ [][NextWindow]_vars

(***************************************************************************)
(* SpecUnread: sends, two at a time, and read acknowledgments of the REST  *)
(* API in the group and the DM.                                            *)
(***************************************************************************)
InitUnread ==
  InitStore({RoomDoc(GroupId, "group", "amy"), RoomDoc(DMId, "dm", "amy")},
            GroupDocs \cup DMDocs)

NextUnread ==
  \/ SendMessageStart(2)
  \/ \E t \in Tasks : SendMessageCreate(t)
  \/ \E t \in Tasks : SendMessageUpdateRoom(t)
  \/ \E t \in Tasks : SendMessageIncrement(t)
  \/ \E roomId \in EventRoomIds \ {<<>>}, userId \in Users : RestMarkAsRead(roomId, userId)

SpecUnread == InitUnread /\ [][NextUnread]_vars

(***************************************************************************)
(* SpecAck: sends, read acknowledgments, and members who leave, are        *)
(* removed and are added, in a group of amy (admin) and bob; one           *)
(* multi-step handler at a time.  amy and bob make the requests; cat is    *)
(* added and removed.                                                      *)
(***************************************************************************)
Actors == {"amy", "bob"}

InitAck ==
  InitStore({RoomDoc(GroupId, "group", "amy")},
            {MemberDoc(GroupId, "amy", "admin", Null), MemberDoc(GroupId, "bob", "member", Null)})

NextAck ==
  \/ \E t \in Tasks, userId \in Actors :
       Admit(t, 1) /\ StartSendMessage(t, GroupId, userId, <<104, 105>>)
  \/ \E t \in Tasks : SendMessageCreate(t)
  \/ \E t \in Tasks : SendMessageUpdateRoom(t)
  \/ \E t \in Tasks : SendMessageIncrement(t)
  \/ \E t \in Tasks, userId \in Actors : Admit(t, 1) /\ StartMarkRoomRead(t, GroupId, userId)
  \/ \E t \in Tasks : MarkRoomReadFind(t)
  \/ \E t \in Tasks : MarkRoomReadMember(t)
  \/ \E userId \in Actors : RestMarkAsRead(GroupId, userId)
  \/ \E t \in Tasks, u \in Actors, n \in Names :
       Admit(t, 1) /\ StartAddMembers(t, GroupId, u, <<n>>)
  \/ \E t \in Tasks, u \in Actors, n \in Names :
       Admit(t, 1) /\ StartRemoveMember(t, GroupId, u, n)
  \/ \E t \in Tasks, u \in Actors : Admit(t, 1) /\ StartLeave(t, GroupId, u)
  \/ \E t \in Tasks, u \in Users : AddFindExisting(t, u)
  \/ \E t \in Tasks : AddReactivate(t)
  \/ \E t \in Tasks : AddCreate(t)
  \/ \E t \in Tasks : RemoveUpdate(t)
  \/ \E t \in Tasks : LeaveSave(t)
  \/ \E t \in Tasks : LeaveFindAdmins(t)
  \/ \E t \in Tasks : LeaveFindOldest(t)
  \/ \E t \in Tasks : LeavePromote(t)

SpecAck == InitAck /\ [][NextAck]_vars

StatusRank(status) ==
  CASE status = "Sent" -> 0 [] status = "Delivered" -> 1 [] status = "Read" -> 2

\* C1: no step lowers the status of a message in the order
\* Sent < Delivered < Read.
C1_StatusOnlyForward ==
  [][\A i \in 1..Len(messages) :
       StatusRank(messages'[i].status) >= StatusRank(messages[i].status)]_vars

\* C5: the step of a send that increments the unread counts adds exactly 1
\* to every row of the message's room that is active and not the sender's,
\* and changes no other row: not the sender's, not one that has left, not
\* one of another room.
C5_IncrementForOthers ==
  [][(resp'.op = "send_message" /\ resp'.event = "receive_message") =>
       /\ Cardinality(members') = Cardinality(members)
       /\ \A m \in members :
            LET other == \E r \in rooms : /\ r.roomId = resp'.roomId
                                          /\ m.room = r.id
                                          /\ m.user # resp'.senderId
                                          /\ m.leftAt = Null
            IN [m EXCEPT !.unreadCount = IF other THEN @ + 1 ELSE @] \in members']_vars

UnreadOf(roomId, user) ==
  LET m == CHOOSE x \in members : x.room = <<roomId, 1>> /\ x.user = user
  IN m.unreadCount

\* amy's second message to the group has been sent: bob has two unread,
\* amy, cat (who left) and the rows of the DM none
C5_Witness ==
  /\ resp.op = "send_message" /\ resp.event = "receive_message"
  /\ resp.roomId = GroupId /\ resp.senderId = "amy" /\ resp.id = 2
  /\ UnreadOf(GroupId, "bob") = 2
  /\ UnreadOf(GroupId, "amy") = 0
  /\ UnreadOf(GroupId, "cat") = 0
  /\ UnreadOf(DMId, "amy") = 0
  /\ UnreadOf(DMId, "bob") = 0

\* C7: the messageIds that Message.markRoomAsRead returns are the ids of the
\* messages that its own updateMany changed to Read.
C7_ReturnsChangedIds ==
  \A t \in Tasks :
    At(t, "mark_room_read", "mrr_member") => tasks[t].messageIds = tasks[t].modified

\* C8: the message_status_update that a message_read event broadcasts lists
\* the ids of the messages that the event changed to Read, and no other.
C8_BroadcastsChangedIds ==
  [][(resp'.op = "message_read" /\ resp'.event = "message_status_update") =>
       resp'.messageIds = {i \in 1..Len(messages) : /\ messages[i].status # "Read"
                                                    /\ messages'[i].status = "Read"}]_vars

\* C6: no unreadCount is negative, and a step that lowers the unreadCount
\* of a row sets it to 0 and is the read acknowledgment (mark_room_read or
\* POST /:roomId/read) of the row's user for the row's room.
C6_UnreadResetOnlyByAck ==
  /\ [](\A m \in members : m.unreadCount >= 0)
  /\ [][\A m \in members : \A n \in members' :
          (n.id = m.id /\ n.unreadCount < m.unreadCount) =>
            /\ n.unreadCount = 0
            /\ resp' \in {[op |-> "mark_room_read", event |-> "unread_reset",
                           roomId |-> r.roomId, userId |-> m.user, unreadCount |-> 0,
                           messageIds |-> ids] : r \in {x \in rooms : x.id = m.room},
                                                 ids \in SUBSET (1..MaxMsgs)}
                    \cup {With(Response("read", 200),
                               [roomId |-> r.roomId, userId |-> m.user, unreadCount |-> 0])
                            : r \in {x \in rooms : x.id = m.room}}]_vars

\* amy has acknowledged bob's message; bob, who left and was added again,
\* and cat, who was removed, still have their unread messages
C6_Witness ==
  /\ resp.op = "read" /\ resp.status = 200 /\ resp.userId = "amy"
  /\ Len(messages) = 2 /\ messages[2].senderId = "bob"
  /\ \E m \in members : m.user = "amy" /\ m.unreadCount = 0 /\ m.role = "admin" /\ m.leftAt = Null
  /\ \E m \in members : m.user = "bob" /\ m.unreadCount = 1 /\ m.leftAt = Null
  /\ \E m \in members : m.user = "cat" /\ m.unreadCount = 1 /\ m.leftAt # Null
  /\ tasks = [t \in Tasks |-> Idle]

(***************************************************************************)
(* SpecDMBody: POST /api/rooms/dm, one request at a time, with every body  *)
(* the endpoint accepts: userId and username are fields of the body, so    *)
(* the caller may be a user of the store or an id of no user.              *)
(***************************************************************************)
\* a well-formed ObjectId that is the _id of no user, and the name it sends
UnknownUser == "dan"

Callers == {<<u, UsernameOf(u)>> : u \in Users} \cup {<<UnknownUser, UnknownName>>}

NextDMBody ==
  \/ \E t \in Tasks, c \in Callers, y \in Names \cup {UnknownName, <<>>} :
       Admit(t, 1) /\ StartDM(t, c[1], c[2], y)
  \/ \E t \in Tasks : DMCreateRoom(t)
  \/ \E t \in Tasks, u \in Users \cup {UnknownUser} : DMCreateMember(t, u)

SpecDMBody == Init /\ [][NextDMBody]_vars

\* C11: a request goes on to the store only if its caller and the other
\* user both exist and differ, so no Room is created by, and no RoomMember
\* row is created for, an id of no user; and a request answered 400 or 404
\* has created no Room and no RoomMember row.
C11_DMFailuresCreateNothing ==
  /\ [](/\ \A t \in Tasks :
             tasks[t].op = "dm" =>
               /\ tasks[t].userId \in Users
               /\ tasks[t].otherId \in Users
               /\ tasks[t].userId # tasks[t].otherId
        /\ \A r \in rooms : r.createdBy \in Users
        /\ \A m \in members : m.user \in Users)
  /\ [][(resp'.op = "dm" /\ resp'.status \in {400, 404}) =>
          (rooms' = rooms /\ members' = members)]_vars

\* C12: the step in which createGroup answers 201 leaves a room of type
\* group whose rows are exactly one active row per id of memberIds, the
\* creator's with role admin and every other with role member: one active
\* admin.
C12_NewGroupRoles ==
  [][\A t \in Tasks :
       (tasks[t].op = "group" /\ tasks'[t] = Idle /\ resp'.op = "group" /\ resp'.status = 201) =>
         LET me == tasks[t]
             rows == {m \in members' : m.room = me.room}
         IN /\ resp'.room = me.room
            /\ \E r \in rooms' : r.id = me.room /\ r.type = "group" /\ r.createdBy = me.userId
            /\ \A m \in rows : m.user \in me.memberIds /\ m.leftAt = Null
            /\ \A u \in me.memberIds :
                 /\ Cardinality({m \in rows : m.user = u}) = 1
                 /\ \A m \in rows :
                      m.user = u => m.role = (IF u = me.userId THEN "admin" ELSE "member")
            /\ Cardinality({m \in rows : m.role = "admin" /\ m.leftAt = Null}) = 1]_vars

\* bob's group of amy, bob and cat has just been created
C12_Witness ==
  /\ resp.op = "group" /\ resp.status = 201
  /\ \E r \in GroupRooms : r.id = resp.room /\ r.createdBy = "bob"
  /\ {m.user : m \in ActiveRows(resp.room)} = Users
  /\ {m.user : m \in ActiveAdmins(resp.room)} = {"bob"}

(***************************************************************************)
(* SpecGroupBody: POST /api/rooms/group, one request at a time, with       *)
(* member lists of one to three usernames, known or not, repeated or not,  *)
(* the creator's among them or not; time passes.                           *)
(***************************************************************************)
BodyNames == Names \cup {UnknownName}

BodyLists ==
  {<<x>> : x \in BodyNames} \cup {<<x, y>> : x \in BodyNames, y \in BodyNames}
    \cup {<<x, y, z>> : x \in BodyNames, y \in BodyNames, z \in BodyNames}

NextGroupBody ==
  \/ \E t \in Tasks, u \in Users, name \in {GroupName, <<>>}, l \in BodyLists :
       Admit(t, 1) /\ StartCreateGroup(t, u, name, l)
  \/ \E t \in Tasks, u \in Users : CreateGroupMember(t, u)
  \/ Tick

SpecGroupBody == Init /\ [][NextGroupBody]_vars

\* C13: a createGroup request goes on to create the group only with at
\* least 3 distinct participants, so every group that has been created has
\* rows of at least 3 users; and a request answered 400 or 404 has created
\* no Room and no RoomMember row.
C13_GroupNeedsThree ==
  /\ [](/\ \A t \in Tasks : tasks[t].op = "group" => Cardinality(tasks[t].memberIds) >= 3
        /\ InFlight = {} =>
             \A r \in GroupRooms : Cardinality({m.user : m \in ActiveRows(r.id)}) >= 3)
  /\ [][(resp'.op = "group" /\ resp'.status \in {400, 404}) =>
          (rooms' = rooms /\ members' = members)]_vars

(***************************************************************************)
(* SpecMembers: POST and DELETE /api/rooms/:roomId/members and             *)
(* POST /api/rooms/:roomId/leave on the group of amy (admin) and bob, one  *)
(* request at a time, by any user, with usernames known or not and         *)
(* repeated or not; time passes.                                           *)
(***************************************************************************)
ShortLists == {<<x>> : x \in BodyNames} \cup {<<x, y>> : x \in BodyNames, y \in BodyNames}

AddRequest(t, userId, usernames) == Admit(t, 1) /\ StartAddMembers(t, GroupId, userId, usernames)

RemoveRequest(t, userId, username) ==
  Admit(t, 1) /\ StartRemoveMember(t, GroupId, userId, username)

LeaveRequest(t, userId) == Admit(t, 1) /\ StartLeave(t, GroupId, userId)

NextMembers ==
  \/ \E t \in Tasks, u \in Users, l \in ShortLists : AddRequest(t, u, l)
  \/ \E t \in Tasks, u \in Users, n \in BodyNames : RemoveRequest(t, u, n)
  \/ \E t \in Tasks, u \in Users : LeaveRequest(t, u)
  \/ \E t \in Tasks, u \in Users : AddFindExisting(t, u)
  \/ \E t \in Tasks : AddReactivate(t)
  \/ \E t \in Tasks : AddCreate(t)
  \/ \E t \in Tasks : RemoveUpdate(t)
  \/ \E t \in Tasks : LeaveSave(t)
  \/ \E t \in Tasks : LeaveFindAdmins(t)
  \/ \E t \in Tasks : LeaveFindOldest(t)
  \/ \E t \in Tasks : LeavePromote(t)
  \/ Tick

SpecMembers == InitAck /\ [][NextMembers]_vars

\* the user has an active row with role admin in the group
IsActiveAdmin(userId) ==
  \E m \in members : /\ m.room = <<GroupId, 1>> /\ m.user = userId
                     /\ m.role = "admin" /\ m.leftAt = Null

Resolves(username) == \E u \in Users : UsernameOf(u) = toLowerCase(username)

\* C14: an addMembers request of a user who is not an active admin of the
\* group is answered 403; one of an active admin is answered 404 exactly
\* when one of its usernames is that of no user; and a request answered 403
\* or 404 leaves every RoomMember row as it was.
C14_AddMembersFailures ==
  [][\A t \in Tasks, userId \in Users, usernames \in ShortLists :
       AddRequest(t, userId, usernames) =>
         /\ ~IsActiveAdmin(userId) => resp'.status = 403
         /\ IsActiveAdmin(userId) =>
              (resp'.status = 404 <=> \E i \in 1..Len(usernames) : ~Resolves(usernames[i]))
         /\ resp'.status \in {403, 404} => members' = members]_vars

\* the rows of the prepared group
GroupRow(ms, u) == {m \in ms : m.room = <<GroupId, 1>> /\ m.user = u}

\* the users an addGroupMembers in flight has already handled
AddHandled(me) == me.users \ (me.pending \cup (IF me.pc = "add_find" THEN {} ELSE {me.cur}))

\* C15: while an addGroupMembers runs alone, every user it has handled has an
\* active membership of the room; a user without a row gets one new active
\* row with role member, a user who had left gets the same row back with
\* leftAt cleared and joinedAt set to the time it was found, a user who is active
\* is not touched, no other row changes, and the counts of the 200 response
\* are the numbers of rows created and reactivated.
C15_AddMembersEffects ==
  /\ [](\A t \in Tasks : tasks[t].op = "add" =>
          \A u \in AddHandled(tasks[t]) : \E m \in GroupRow(members, u) : m.leftAt = Null)
  /\ [][\A t \in Tasks : (tasks[t].op = "add" /\ tasks'[t] # tasks[t]) =>
          LET me == tasks[t]
              done == tasks'[t] = Idle
              addedNow == IF done THEN resp'.addedCount - me.created
                          ELSE tasks'[t].created - me.created
              reactivatedNow == IF done THEN resp'.reactivatedCount - me.reactivated
                                ELSE tasks'[t].reactivated - me.reactivated
          IN /\ done => /\ resp'.op = "add" /\ resp'.status = 200
                        /\ \A u \in me.users :
                             \E m \in GroupRow(members', u) : m.leftAt = Null
             /\ me.pc = "add_find" =>
                  /\ members' = members /\ addedNow = 0 /\ reactivatedNow = 0
                  /\ \A u \in Users :
                       (~done /\ tasks'[t].cur = u /\ tasks'[t].pc = "add_create")
                          => GroupRow(members, u) = {}
                  /\ \A u \in Users :
                       (~done /\ tasks'[t].cur = u /\ tasks'[t].pc = "add_save")
                          => \E m \in GroupRow(members, u) :
                               /\ m.leftAt # Null /\ tasks'[t].row = m.id
                               /\ tasks'[t].at = now
             /\ me.pc = "add_create" =>
                  /\ addedNow = 1 /\ reactivatedNow = 0
                  /\ \E m \in members' \ members :
                       /\ members' = members \cup {m}
                       /\ m.room = me.room /\ m.user = me.cur
                       /\ m.role = "member" /\ m.leftAt = Null
             /\ me.pc = "add_save" =>
                  /\ addedNow = 0 /\ reactivatedNow = 1
                  /\ \E m \in members : \E n \in members' :
                       /\ m.id = me.row /\ m.user = me.cur /\ m.leftAt # Null
                       /\ n = With(m, [leftAt |-> Null, joinedAt |-> me.at])
                       /\ members' = (members \ {m}) \cup {n}]_vars

\* a user who had left and a user who never joined were added in one request
\* after the clock moved
C15_Witness ==
  /\ resp.op = "add" /\ resp.status = 200
  /\ resp.addedCount = 1 /\ resp.reactivatedCount = 1
  /\ now > 0
  /\ \E m \in GroupRow(members, "bob") : m.leftAt = Null /\ m.joinedAt > 0
  /\ \E m \in GroupRow(members, "cat") : m.leftAt = Null /\ m.role = "member"

\* C16: a removeGroupMember that runs alone is answered 403 when the requester
\* is not an active admin, 400 when an active admin names themself, and 404
\* when the named user has no active membership of the group; a request
\* answered 400, 403 or 404 changes no row; a request answered 200 sets
\* leftAt of the target's active row and changes nothing else.
C16_RemoveMember ==
  /\ [][(resp'.op = "remove" \/ \E t \in Tasks : Free(t) /\ tasks'[t].op = "remove") =>
          \A t \in Tasks, userId \in Users, username \in BodyNames :
            RemoveRequest(t, userId, username) =>
              LET target == UserByName(toLowerCase(username))
              IN /\ ~IsActiveAdmin(userId) => resp'.status = 403
                 /\ (IsActiveAdmin(userId) /\ target = {userId}) => resp'.status = 400
                 /\ (IsActiveAdmin(userId) /\ target = {}) => resp'.status = 404
                 /\ (IsActiveAdmin(userId) /\ target # {} /\ target # {userId}) =>
                      /\ tasks'[t].op = "remove"
                      /\ tasks'[t].target \in target]_vars
  /\ [][\A t \in Tasks : At(t, "remove", "rm_update") /\ tasks'[t] # tasks[t] =>
          LET active == {m \in GroupRow(members, tasks[t].target) : m.leftAt = Null}
          IN /\ resp'.op = "remove"
             /\ active = {} => resp'.status = 404
             /\ active # {} =>
                  /\ resp'.status = 200
                  /\ \E m \in active :
                       members' = (members \ {m}) \cup {With(m, [leftAt |-> now])}]_vars
  /\ [][(resp'.op = "remove" /\ resp'.status \in {400, 403, 404}) => members' = members]_vars

\* bob was removed by the admin: his row is still there, with leftAt set and
\* the role it had
C16_Witness ==
  /\ resp.op = "remove" /\ resp.status = 200
  /\ \E m \in GroupRow(members, "bob") : m.leftAt # Null /\ m.role = "member"
  /\ \E m \in GroupRow(members, "amy") : m.leftAt = Null /\ m.role = "admin"

SameRoles(ms, ns) == \A m \in ms : \A n \in ns : m.id = n.id => m.role = n.role

GroupActive(ms) == {m \in ms : m.room = <<GroupId, 1>> /\ m.leftAt = Null}

GroupAdmins(ms) == {m \in GroupActive(ms) : m.role = "admin"}

\* C17: a leaveGroup that runs alone changes a role only when the member who
\* left was the only active admin and an active member remains: then one
\* remaining active member whose joinedAt is the earliest becomes admin and
\* the group has exactly one active admin.  When the member who leaves is not
\* an admin, or another active admin remains, no role changes.
C17_AdminSuccession ==
  [][\A t \in Tasks : (tasks[t].op = "leave" /\ tasks'[t] # tasks[t]) =>
       LET me == tasks[t]
           done == tasks'[t] = Idle
       IN /\ me.pc = "lv_save" =>
               /\ \E m \in GroupActive(members) :
                    /\ m.id = me.row
                    /\ me.isAdminLeaving <=> m.role = "admin"
                    /\ members' = (members \ {m}) \cup {With(m, [leftAt |-> me.at])}
               /\ done <=> ~me.isAdminLeaving
          /\ me.pc = "lv_admins" =>
               /\ members' = members
               /\ done <=> GroupAdmins(members) # {}
          /\ me.pc = "lv_oldest" =>
               /\ members' = members
               /\ done <=> GroupActive(members) = {}
          /\ me.pc = "lv_promote" =>
               /\ done
               /\ GroupAdmins(members) = {}
               /\ \E m \in GroupActive(members) :
                    /\ \A o \in GroupActive(members) : m.joinedAt <= o.joinedAt
                    /\ members' = (members \ {m}) \cup {With(m, [role |-> "admin"])}
               /\ Cardinality(GroupAdmins(members')) = 1
          /\ me.pc # "lv_promote" => SameRoles(members, members')
          /\ done => resp' = Response("leave", 200)]_vars

\* the only admin left a group of two members who had joined at different
\* times, and the one who had joined first is the admin now
C17_Witness ==
  /\ resp = Response("leave", 200)
  /\ \E a \in GroupRow(members, "amy") : a.leftAt # Null
  /\ \E b \in GroupAdmins(members) : \E c \in GroupActive(members) :
       /\ GroupAdmins(members) = {b}
       /\ c.role = "member"
       /\ b.joinedAt < c.joinedAt

(***************************************************************************)
(* SpecLimit: send_message in the group and the DM, one handler at a time, *)
(* with texts up to and beyond the schema's limit.                         *)
(***************************************************************************)
Filled(n, c) == [i \in 1..n |-> c]

\* "", " ", "b", 500 and 501 times "a", and 500 times "a" followed by " "
SendTexts ==
  {<<>>, <<32>>, <<98>>, Filled(MaxTextLen, 97), Filled(MaxTextLen + 1, 97),
   Filled(MaxTextLen, 97) \o <<32>>}

SendRequest(t, roomId, userId, text) ==
  Admit(t, 1) /\ StartSendMessage(t, roomId, userId, text)

NextLimit ==
  \/ \E t \in Tasks, roomId \in EventRoomIds \ {<<>>}, userId \in Users, text \in SendTexts :
       SendRequest(t, roomId, userId, text)
  \/ \E t \in Tasks : SendMessageCreate(t)
  \/ \E t \in Tasks : SendMessageUpdateRoom(t)
  \/ \E t \in Tasks : SendMessageIncrement(t)

SpecLimit == InitUnread /\ [][NextLimit]_vars

(***************************************************************************)
(* SpecSend: send_message in the group and the DM, two handlers at a time, *)
(* with texts longer than the room's cache keeps.                          *)
(***************************************************************************)
\* "b", and 101 times "a"
LongTexts == {<<98>>, Filled(LastMessageLen + 1, 97)}

NextSend ==
  \/ \E t \in Tasks, roomId \in KnownRoomIds, userId \in Users, text \in LongTexts :
       Admit(t, 2) /\ StartSendMessage(t, roomId, userId, text)
  \/ \E t \in Tasks : SendMessageCreate(t)
  \/ \E t \in Tasks : SendMessageUpdateRoom(t)
  \/ \E t \in Tasks : SendMessageIncrement(t)
  \/ Tick

SpecSend == InitUnread /\ [][NextSend]_vars

(***************************************************************************)
(* SpecFail: send_message in the group and the DM, one handler at a time,  *)
(* with store accesses that may fail.                                      *)
(***************************************************************************)
NextFail ==
  \/ SendMessageStart(1)
  \/ \E t \in Tasks : SendMessageCreate(t)
  \/ \E t \in Tasks : SendMessageUpdateRoom(t)
  \/ \E t \in Tasks : SendMessageIncrement(t)
  \/ \E t \in Tasks : SendMessageCatch(t)

SpecFail == InitUnread /\ [][NextFail]_vars

\* the user has an active membership of the room with this roomId
ActiveIn(roomId, userId) ==
  \E r \in rooms : \E m \in members :
    r.roomId = roomId /\ m.room = r.id /\ m.user = userId /\ m.leftAt = Null

\* the step answered the caller of send_message with an error event and
\* nothing else: no document changed and nothing was broadcast
SendRejected(t) ==
  /\ resp'.op = "send_message" /\ resp'.event = "error"
  /\ tasks'[t] = Idle
  /\ rooms' = rooms /\ members' = members /\ messages' = messages

\* a send_message is rejected at once when its text is blank, its room does
\* not exist or its user has no active membership of the room, and at
\* Message.create when its text, trimmed first or not, exceeds 500 characters
SendRejections(trimmed) ==
  /\ ((\E t \in Tasks : Free(t) /\ (tasks'[t] # Idle \/ resp'.op = "send_message")) =>
          \A t \in Tasks, roomId \in EventRoomIds \ {<<>>}, userId \in Users,
             text \in SendTexts :
            SendRequest(t, roomId, userId, text) =>
              IF \/ \A i \in 1..Len(text) : IsWhiteSpace(text[i])
                 \/ ~\E r \in rooms : r.roomId = roomId
                 \/ ~ActiveIn(roomId, userId)
                THEN SendRejected(t)
                ELSE /\ tasks'[t].op = "send_message" /\ tasks'[t].pc = "sm_create"
                     /\ tasks'[t].text = text)
  /\ (\A t \in Tasks :
          (/\ At(t, "send_message", "sm_create")
           /\ tasks'[t] # tasks[t]
           /\ Len(IF trimmed THEN trim(tasks[t].text) ELSE tasks[t].text) > MaxTextLen)
            => SendRejected(t))

\* C18 as stated: a send_message whose text is blank or longer than 500
\* characters, whose room does not exist or whose user has no active
\* membership of the room is answered with an error event and changes no
\* message, room or membership and broadcasts nothing.
C18_RejectedSends == [][SendRejections(FALSE)]_vars

\* C18 with the length taken after trimming: a send_message whose text is
\* blank or, trimmed, longer than 500 characters, whose room does not exist or
\* whose user has no active membership of the room is answered with an error
\* event and changes no message, room or membership and broadcasts nothing.
C18_RejectedSends_Trimmed == [][SendRejections(TRUE)]_vars

\* a text of 501 characters was refused by the schema after another message
\* had been sent
C18_Witness ==
  /\ resp = SendMessageFailed("Message cannot exceed 500 characters")
  /\ messages # <<>>
  /\ \E m \in members : m.unreadCount > 0

\* C19: a send_message whose Message document has been created ends with the
\* receive_message broadcast to the room, whatever becomes of the update of
\* the room's cache and of the unread increment; its sender gets no
\* "Failed to send message" for it.
C19_PersistedSendIsDelivered ==
  [][\A t \in Tasks :
       (/\ tasks[t].op = "send_message"
        /\ tasks[t].pc \in {"sm_room", "sm_unread"}
        /\ tasks'[t] = Idle)
         => /\ resp'.op = "send_message"
            /\ resp'.event = "receive_message"
            /\ resp'.id = tasks[t].message]_vars

\* the messages of a room
RoomMessages(roomId) == {i \in 1..Len(messages) : messages[i].roomId = roomId}

\* the most recently created messages of a room
LatestMessages(roomId) ==
  {i \in RoomMessages(roomId) :
     \A j \in RoomMessages(roomId) : messages[j].createdAt <= messages[i].createdAt}

\* C20: when no send_message is in flight for a room that has a message, the
\* room's lastMessage is the text of a most recently created message of the
\* room and lastMessageAt is not before that message's createdAt.
C20_CacheIsLatestMessage ==
  \A r \in rooms :
    (/\ RoomMessages(r.roomId) # {}
     /\ ~\E t \in Tasks : tasks[t].op = "send_message" /\ tasks[t].room = r.id)
      => \E i \in LatestMessages(r.roomId) :
           /\ r.lastMessage = messages[i].text
           /\ r.lastMessageAt >= messages[i].createdAt

(***************************************************************************)
(* GET /api/messages/:roomId: a page of a room's history.                  *)
(***************************************************************************)
\* messageModel.js:57 and part_003:25: limit = 30 unless given
DefaultLimit == 30

\* messageModel.js:60: Math.min(limit, 75)
PageLimitMax == 75

Min(a, b) == IF a < b THEN a ELSE b

\* the query of getPaginatedMessages: { roomId } and, with a cursor,
\* createdAt: { $lt: new Date(before) }
PageQuery(roomIdString, before) ==
  {i \in 1..Len(messages) :
     /\ messages[i].roomId = roomIdString
     /\ before # Null => messages[i].createdAt < before}

\* sort({ createdAt: -1 }): documents of equal createdAt come in the order
\* the store finds them, by _id upwards or downwards
SortsBefore(i, j, ties) ==
  \/ messages[i].createdAt > messages[j].createdAt
  \/ /\ messages[i].createdAt = messages[j].createdAt
     /\ IF ties = "up" THEN i < j ELSE i > j

RECURSIVE SortNewestFirst(_, _)
SortNewestFirst(found, ties) ==
  IF found = {} THEN <<>>
  ELSE LET first == CHOOSE i \in found : \A j \in found : j = i \/ SortsBefore(i, j, ties)
       IN <<first>> \o SortNewestFirst(found \ {first}, ties)

getPaginatedMessages_NoExtraRow(roomIdString, limit, before, ties) ==
  LET actualLimit == Min(limit, PageLimitMax)
      sorted == SortNewestFirst(PageQuery(roomIdString, before), ties)
      found == SubSeq(sorted, 1, Min(Len(sorted), actualLimit))
      hasMore == Len(found) >= actualLimit
  IN [messages |-> found, hasMore |-> hasMore,
      oldestMessageTime |-> IF found # <<>> THEN messages[found[Len(found)]].createdAt
                            ELSE Null,
      count |-> Len(found)]

\* Message.getPaginatedMessages after the room was found: find, sort,
\* limit(actualLimit + 1), slice
getPaginatedMessages(roomIdString, limit, before, ties) ==
  LET actualLimit == Min(limit, PageLimitMax)
      sorted == SortNewestFirst(PageQuery(roomIdString, before), ties)
      found == SubSeq(sorted, 1, Min(Len(sorted), actualLimit + 1))
      hasMore == Len(found) > actualLimit
      actualMessages == IF hasMore THEN SubSeq(found, 1, actualLimit) ELSE found
  IN [messages |-> actualMessages, hasMore |-> hasMore,
      oldestMessageTime |->
        IF actualMessages # <<>>
          THEN messages[actualMessages[Len(actualMessages)]].createdAt
          ELSE Null,
      count |-> Len(actualMessages)]

\* res.status(statusCode).json({ status, ... }) of sendSuccess, of sendFail and
\* of the global error handler
Envelope(op, statusCode, status) == [op |-> op, status |-> statusCode, envelope |-> status]

IsDigit(c) == c >= 48 /\ c <= 57

\* the number the leading digits of s continue acc to
RECURSIVE DigitsValue(_, _)
DigitsValue(s, acc) ==
  IF s # <<>> /\ IsDigit(Head(s)) THEN DigitsValue(Tail(s), 10 * acc + (Head(s) - 48)) ELSE acc

\* parseInt(string, 10): white space, a sign, then digits up to the first
\* other character; NaN without a digit
parseInt(string) ==
  LET s == trimStart(string)
      signed == s # <<>> /\ Head(s) \in {43, 45}
      body == IF signed THEN Tail(s) ELSE s
  IN IF body = <<>> \/ ~IsDigit(Head(body)) THEN [isNaN |-> TRUE, n |-> 0]
     ELSE [isNaN |-> FALSE,
           n |-> IF signed /\ Head(s) = 45 THEN 0 - DigitsValue(body, 0)
                 ELSE DigitsValue(body, 0)]

\* req.query.before: absent, a string Date.parse rejects, or the ISO string
\* of a time
NoBefore == [given |-> FALSE, valid |-> FALSE, time |-> Null]

BadBefore == [given |-> TRUE, valid |-> FALSE, time |-> Null]

BeforeTime(t) == [given |-> TRUE, valid |-> TRUE, time |-> t]

\* getMessages: the checks of limit and before call sendFail, which the
\* controller does not import: the ReferenceError goes to the global error
\* handler, as does the Error("Room not found") of getPaginatedMessages.
\* The response is kept with the request it answers.
getMessages(roomId, limit, before) ==
  /\ LET parsed == IF limit # <<>> THEN parseInt(limit) ELSE [isNaN |-> FALSE, n |-> DefaultLimit]
         request == [request |-> [roomId |-> roomId, limit |-> limit, before |-> before]]
     IN IF parsed.isNaN \/ parsed.n < 1
          THEN resp' = With(Envelope("getMessages", 500, "error"), request)
        ELSE IF before.given /\ ~before.valid
          THEN resp' = With(Envelope("getMessages", 500, "error"), request)
        ELSE IF RoomByRoomId(roomId) = {}
          THEN resp' = With(Envelope("getMessages", 500, "error"), request)
        ELSE \E ties \in {"up", "down"} :
               resp' = With(With(Envelope("getMessages", 200, "success"), request),
                            getPaginatedMessages(roomId, parsed.n, before.time, ties))
  /\ UNCHANGED <<now, dbVars, tasks, netVars>>

(***************************************************************************)
(* SpecPage: histories of the DM of amy and bob, read in single pages and  *)
(* page by page.                                                           *)
(***************************************************************************)
\* a stored message
MessageDoc(id, senderId, roomId, createdAt) ==
  [id |-> id, senderId |-> senderId, roomId |-> roomId, text |-> <<104, 105>>,
   status |-> "Sent", createdAt |-> createdAt, deliveredAt |-> Null, readAt |-> Null]

\* when the i-th message was created: each in its own millisecond, two in
\* each millisecond, or all in one
CreatedAt(i, pace) ==
  IF pace = "apart" THEN i ELSE IF pace = "pairs" THEN (i + 1) \div 2 ELSE 1

\* count messages of the DM, then one of the group
History(count, pace) ==
  [i \in 1..(count + 1) |->
     IF i <= count THEN MessageDoc(i, IF i % 2 = 1 THEN "amy" ELSE "bob", DMId, CreatedAt(i, pace))
     ELSE MessageDoc(i, "amy", GroupId, CreatedAt(i, pace))]

\* up to three messages at any pace, and the sizes that reach past the
\* default and the greatest limit
Histories ==
  {History(count, pace) : count \in 0..3, pace \in {"apart", "pairs", "once"}}
    \cup {History(DefaultLimit + 1, "apart"), History(PageLimitMax + 2, "apart")}

InitPage ==
  /\ messages \in Histories
  /\ now = messages[Len(messages)].createdAt
  /\ rooms = {RoomDoc(GroupId, "group", "amy"), RoomDoc(DMId, "dm", "amy")}
  /\ members = GroupDocs \cup DMDocs
  /\ tasks = [t \in Tasks |-> Idle]
  /\ resp = NoResp
  /\ sockets = NoSockets
  /\ online = {}

\* "", "0", "1", "2", "76", "-1", "2x", "abc"
QueryLimits ==
  {<<>>, <<48>>, <<49>>, <<50>>, <<55, 54>>, <<45, 49>>, <<50, 120>>, <<97, 98, 99>>}

QueryBefores == {NoBefore, BadBefore, BeforeTime(1), BeforeTime(2)}

\* a client that reads a room's history to its end: the first request has
\* no cursor
StartHistory(t, roomId, limit) ==
  /\ Goto(t, [op |-> "history", pc |-> "page", roomId |-> roomId, limit |-> limit,
              before |-> NoBefore, seen |-> <<>>])
  /\ UNCHANGED <<now, dbVars>>

\* the next getMessages of that client: before is the oldestMessageTime of
\* the page before, and the reading ends with hasMore false
HistoryPage(t) ==
  /\ At(t, "history", "page")
  /\ LET me == tasks[t]
         n == IF me.limit # <<>> THEN parseInt(me.limit).n ELSE DefaultLimit
     IN \E ties \in {"up", "down"} :
          LET page == getPaginatedMessages(me.roomId, n, me.before.time, ties)
              seen == me.seen \o page.messages
          IN IF page.hasMore
               THEN Goto(t, With(me, [before |-> BeforeTime(page.oldestMessageTime),
                                      seen |-> seen]))
               ELSE Answer(t, [op |-> "history", status |-> 200, roomId |-> me.roomId,
                               seen |-> seen])
  /\ UNCHANGED <<now, dbVars>>

NextPage ==
  \/ \E roomId \in EventRoomIds \ {<<>>}, limit \in QueryLimits, before \in QueryBefores :
       InFlight = {} /\ getMessages(roomId, limit, before)
  \/ \E t \in Tasks, limit \in {<<>>, <<49>>, <<50>>} :
       Admit(t, 1) /\ StartHistory(t, DMId, limit)
  \/ \E t \in Tasks : HistoryPage(t)

SpecPage == InitPage /\ [][NextPage]_vars

\* the messages of the room of a request that are older than its cursor
Eligible(request) ==
  {i \in RoomMessages(request.roomId) :
     request.before.given => messages[i].createdAt < request.before.time}

\* the number a limit stands for
LimitOf(limit) ==
  IF limit = <<>> THEN DefaultLimit
  ELSE IF limit = <<50, 120>> THEN 2
  ELSE DigitsValue(limit, 0)

\* what C21 says of a page, with the messages hasMore counts given as rest(page)
PageAsClaimed(r, furtherOnes) ==
  LET eligible == Eligible(r.request)
      page == r.messages
      returned == {page[k] : k \in 1..Len(page)}
  IN /\ Len(page) = Min(Min(LimitOf(r.request.limit), PageLimitMax), Cardinality(eligible))
     /\ r.count = Len(page)
     /\ returned \subseteq eligible
     /\ Cardinality(returned) = Len(page)
     /\ \A k \in 1..Len(page) : \A l \in 1..Len(page) :
          k < l => messages[page[k]].createdAt >= messages[page[l]].createdAt
     /\ \A i \in eligible \ returned : \A j \in returned :
          messages[i].createdAt <= messages[j].createdAt
     /\ r.hasMore <=> furtherOnes # {}
     /\ r.oldestMessageTime =
          IF page = <<>> THEN Null ELSE messages[page[Len(page)]].createdAt

\* C21 as stated: a page holds the min(limit, 75) newest messages of the room
\* older than before, newest first, none of another room; hasMore is true
\* exactly when the room holds a message older than the last one returned;
\* oldestMessageTime is the createdAt of the last one returned, or null.
C21_PageOfHistory ==
  (resp.op = "getMessages" /\ resp.status = 200) =>
    PageAsClaimed(resp,
      IF resp.messages = <<>> THEN {}
      ELSE {i \in RoomMessages(resp.request.roomId) :
              messages[i].createdAt < resp.oldestMessageTime})

\* C21 with hasMore counting every message not returned: hasMore is true
\* exactly when the room holds messages older than before that the page
\* does not return.
C21_PageOfHistory_Rest ==
  (resp.op = "getMessages" /\ resp.status = 200) =>
    PageAsClaimed(resp,
      Eligible(resp.request) \ {resp.messages[k] : k \in 1..Len(resp.messages)})

\* a page cut at the greatest limit: 76 was asked for, 75 messages came and
\* more are left
C21_Witness ==
  /\ resp.op = "getMessages" /\ resp.status = 200
  /\ resp.request.limit = <<55, 54>>
  /\ resp.count = PageLimitMax
  /\ resp.hasMore

\* C22: a history read page by page, each page's oldestMessageTime the next
\* cursor, until hasMore is false, holds every message of the room exactly
\* once, whatever the createdAt of the messages.
C22_HistoryReadOnce ==
  resp.op = "history" =>
    /\ {resp.seen[k] : k \in 1..Len(resp.seen)} = RoomMessages(resp.roomId)
    /\ Len(resp.seen) = Cardinality(RoomMessages(resp.roomId))

(***************************************************************************)
(* The socket server: io.on("connection"), join_room, typing, disconnect.  *)
(* What a step emits is in `resp.events`: each event with the sockets it   *)
(* goes to.                                                                *)
(***************************************************************************)
Emit(op, s, events) == [op |-> op, socket |-> s, events |-> events]

Event(event, to) == [event |-> event, to |-> to]

\* the connected sockets
Live == {x \in SocketIds : sockets[x].open}

\* the sockets in a room of the adapter
InRoom(roomId) == {x \in Live : roomId \in sockets[x].rooms}

SetSocket(s, upd) == [sockets EXCEPT ![s] = With(sockets[s], upd)]

\* a step of a handler that touches its socket; done says the handler ends
SocketStep(t, rec, done, r) ==
  /\ tasks' = [tasks EXCEPT ![t] = IF done THEN Idle ELSE rec]
  /\ resp' = r

Connect_NoReturn(t, s, userId) ==
  /\ ~sockets[s].open
  /\ sockets' = [sockets EXCEPT ![s] = With(ClosedSocket, [open |-> TRUE, userId |-> userId])]
  /\ online' = online \cup ({userId} \cap Users)
  /\ SocketStep(t, [op |-> "connect", pc |-> "cn_members", socket |-> s, userId |-> userId,
                    roomNames |-> {}], FALSE,
                IF userId = NoUser
                  THEN Emit("connect", s, {Event("error", {s})})
                  ELSE NoResp)
  /\ UNCHANGED <<now, dbVars>>

\* io.on("connection"): without userId the socket gets an error and is
\* disconnected; with one, socket.userId is set and
\* User.findByIdAndUpdate(userId, { isOnline: true })
Connect(t, s, userId) ==
  /\ ~sockets[s].open
  /\ IF userId = NoUser
       THEN /\ sockets' = [sockets EXCEPT ![s] = ClosedSocket]
            /\ SocketStep(t, Idle, TRUE, Emit("connect", s, {Event("error", {s})}))
            /\ UNCHANGED online
       ELSE /\ sockets' = [sockets EXCEPT ![s] =
                             With(ClosedSocket, [open |-> TRUE, userId |-> userId])]
            /\ online' = online \cup ({userId} \cap Users)
            /\ SocketStep(t, [op |-> "connect", pc |-> "cn_members", socket |-> s,
                              userId |-> userId, roomNames |-> {}], FALSE, NoResp)
  /\ UNCHANGED <<now, dbVars>>

ActiveMemberships_WithLeft(userId) == {m \in members : m.user = userId}

\* RoomMember.find({ userId, leftAt: null })
ActiveMemberships(userId) == {m \in members : m.user = userId /\ m.leftAt = Null}

\* socket.join(userId); RoomMember.find({ userId, leftAt: null }).select("roomId")
ConnectFindMemberships(t) ==
  /\ At(t, "connect", "cn_members")
  /\ LET me == tasks[t]
         roomObjectIds == {m.room : m \in ActiveMemberships(me.userId)}
     IN /\ sockets' = SetSocket(me.socket, [personal |-> {me.userId}])
        /\ SocketStep(t, With(me, [pc |-> IF roomObjectIds = {} THEN "cn_online" ELSE "cn_rooms",
                                   roomObjectIds |-> roomObjectIds]), FALSE, NoResp)
  /\ UNCHANGED <<now, dbVars, online>>

\* Room.find({ _id: { $in: roomObjectIds } }).select("roomId")
ConnectFindRooms(t) ==
  /\ At(t, "connect", "cn_rooms")
  /\ LET me == tasks[t]
     IN Goto(t, With(me, [pc |-> "cn_online",
                          roomNames |-> {r.roomId : r \in {x \in rooms : x.id \in me.roomObjectIds}}]))
  /\ UNCHANGED <<now, dbVars>>

\* socket.join(roomNames); socket.broadcast.emit("user_online");
\* User.find({ isOnline: true }); socket.emit("online_users_list"); then the
\* handlers of the socket are registered
ConnectOnline(t) ==
  /\ At(t, "connect", "cn_online")
  /\ LET me == tasks[t]
     IN /\ sockets' = SetSocket(me.socket, [rooms |-> sockets[me.socket].rooms \cup me.roomNames,
                                            handlers |-> TRUE])
        /\ SocketStep(t, Idle, TRUE,
                      With(Emit("connect", me.socket,
                                {Event("user_online", Live \ {me.socket}),
                                 Event("online_users_list", {me.socket})}),
                           [userId |-> me.userId, users |-> online]))
  /\ UNCHANGED <<now, dbVars, online>>

\* handleJoinRoom up to isUserInRoom: Room.findOne({ roomId })
StartJoinRoom(t, s, roomId, userId) ==
  /\ sockets[s].handlers
  /\ IF RoomByRoomId(roomId) = {}
       THEN Answer(t, Emit("join_room", s, {Event("error", {s})}))
       ELSE \E r \in RoomByRoomId(roomId) :
              Goto(t, [op |-> "join_room", pc |-> "jr_member", socket |-> s, roomId |-> roomId,
                       room |-> r.id, userId |-> userId])
  /\ UNCHANGED <<now, dbVars>>

\* isUserInRoom(room._id, userId); socket.join(roomId); joined_room to the
\* socket and user_joined to the others in the room
JoinRoomMember(t) ==
  /\ At(t, "join_room", "jr_member")
  /\ LET me == tasks[t]
     IN IF ~isUserInRoom(me.room, me.userId)
          THEN Answer(t, With(Emit("join_room", me.socket, {Event("error", {me.socket})}),
                              [roomId |-> me.roomId, userId |-> me.userId]))
          ELSE /\ sockets' = SetSocket(me.socket,
                                       [rooms |-> sockets[me.socket].rooms \cup {me.roomId}])
               /\ SocketStep(t, Idle, TRUE,
                             With(Emit("join_room", me.socket,
                                       {Event("joined_room", {me.socket}),
                                        Event("user_joined", InRoom(me.roomId) \ {me.socket})}),
                                  [roomId |-> me.roomId, userId |-> me.userId]))
               /\ UNCHANGED online
  /\ UNCHANGED <<now, dbVars>>

\* handleTyping: nothing without roomId or userId, else user_typing to the
\* others in the room
handleTyping(s, roomId, userId) ==
  /\ sockets[s].handlers
  /\ resp' = With(IF roomId = <<>> \/ userId = NoUser
                    THEN Emit("typing", s, {})
                    ELSE Emit("typing", s, {Event("user_typing", InRoom(roomId) \ {s})}),
                  [request |-> [roomId |-> roomId, userId |-> userId]])
  /\ UNCHANGED <<now, dbVars, tasks, netVars>>

\* the socket disconnects and leaves its rooms.  handleDisconnect, if it is
\* registered: User.findByIdAndUpdate(userId, { isOnline: false }), which
\* may reject, then io.emit("user_offline"); the catch only logs
Disconnect(s, updated) ==
  /\ sockets[s].open
  /\ \A t \in Tasks : tasks[t].op \in {"connect", "join_room"} => tasks[t].socket # s
  /\ sockets' = [sockets EXCEPT ![s] = ClosedSocket]
  /\ IF sockets[s].handlers /\ sockets[s].userId # NoUser
       THEN IF updated
              THEN /\ online' = online \ {sockets[s].userId}
                   /\ resp' = With(Emit("disconnect", s, {Event("user_offline", Live \ {s})}),
                                   [userId |-> sockets[s].userId, updated |-> TRUE])
              ELSE /\ UNCHANGED online
                   /\ resp' = With(Emit("disconnect", s, {}),
                                   [userId |-> sockets[s].userId, updated |-> FALSE])
       ELSE /\ UNCHANGED online
            /\ resp' = NoResp
  /\ UNCHANGED <<now, dbVars, tasks>>

(***************************************************************************)
(* SpecConn: two sockets connect, join rooms, type and disconnect, while   *)
(* the admin of the group adds members; one multi-step handler at a time.  *)
(***************************************************************************)
\* who connects: nobody, a member of both rooms, a user who left the group
Handshakes == {NoUser, "amy", "cat"}

NextConn ==
  \/ \E t \in Tasks, s \in SocketIds, userId \in Handshakes :
       Admit(t, 1) /\ Connect(t, s, userId)
  \/ \E t \in Tasks : ConnectFindMemberships(t)
  \/ \E t \in Tasks : ConnectFindRooms(t)
  \/ \E t \in Tasks : ConnectOnline(t)
  \/ \E t \in Tasks, s \in SocketIds, roomId \in EventRoomIds \ {<<>>},
        userId \in {"amy", "cat", UnknownUser} :
       Admit(t, 1) /\ StartJoinRoom(t, s, roomId, userId)
  \/ \E t \in Tasks : JoinRoomMember(t)
  \/ \E s \in SocketIds, roomId \in {<<>>, GroupId}, userId \in {NoUser, "amy"} :
       handleTyping(s, roomId, userId)
  \/ \E s \in SocketIds, updated \in BOOLEAN : Disconnect(s, updated)
  \/ \E t \in Tasks : AddRequest(t, "amy", <<UsernameOf("cat")>>)
  \/ \E t \in Tasks, u \in Users : AddFindExisting(t, u)
  \/ \E t \in Tasks : AddReactivate(t)

SpecConn == InitUnread /\ [][NextConn]_vars

\* the events of the last step named `event`
Emitted(event) == IF "events" \in DOMAIN resp THEN {e \in resp.events : e.event = event} ELSE {}

\* C23: a connection whose handshake has no user identity is rejected and
\* closed: the socket gets an error, stays in no channel and no room, with no
\* handler registered; no presence flag changes and no user_online is sent.
C23_AnonymousRejected ==
  [][\A t \in Tasks, s \in SocketIds :
       Connect(t, s, NoUser) =>
         /\ sockets'[s] = ClosedSocket
         /\ \A x \in SocketIds : sockets'[x] = sockets[x]
         /\ online' = online
         /\ tasks'[t] = Idle
         /\ resp'.events = {Event("error", {s})}]_vars

\* a socket was refused while another session was live
C23_Witness ==
  /\ resp.op = "connect"
  /\ Emitted("error") # {}
  /\ ~sockets[resp.socket].open
  /\ Live # {}
  /\ online # {}

\* the rooms the user is an active member of, by their names
RoomNamesOf(userId) == {r.roomId : r \in {x \in rooms : ActiveIn(x.roomId, userId)}}

\* a connection with a user identity has just finished
Connected == resp.op = "connect" /\ "userId" \in DOMAIN resp

\* C24: when a connection with a user identity finishes, its socket is in the
\* user's own channel and in exactly the rooms of the user's active
\* memberships, user_online went to every other live socket and not to this
\* one, and this one got the list of the users that are online; a
\* socket's rooms change only by its own connect, join_room or disconnect, so
\* a membership gained later subscribes nothing.
C24_ConnectSubscribes ==
  /\ [](Connected =>
          /\ sockets[resp.socket].personal = {resp.userId}
          /\ sockets[resp.socket].rooms = RoomNamesOf(resp.userId)
          /\ Emitted("user_online") = {Event("user_online", Live \ {resp.socket})}
          /\ Emitted("online_users_list") = {Event("online_users_list", {resp.socket})}
          /\ resp.users = online)
  /\ [][\A s \in SocketIds :
          sockets'[s].rooms # sockets[s].rooms =>
            /\ resp'.op \in {"connect", "join_room", "disconnect"}
            /\ resp'.socket = s]_vars
  /\ [][members' # members => sockets' = sockets]_vars

\* a member of two rooms connected while another session was live
C24_Witness ==
  /\ Connected
  /\ Cardinality(sockets[resp.socket].rooms) = 2
  /\ Live \ {resp.socket} # {}

\* join_room was refused: the sockets are as they were and the only event is
\* an error to the caller
JoinRefused(s) == sockets' = sockets /\ resp'.events = {Event("error", {s})}

\* C25: join_room puts the socket into the room only if the room exists and
\* the given userId has an active membership in it; otherwise no socket's
\* rooms change, the caller gets an error event, and neither joined_room nor
\* user_joined is emitted.
C25_JoinRoomGuard ==
  [][\A t \in Tasks :
       /\ \A s \in SocketIds, roomId \in EventRoomIds \ {<<>>} :
            (RoomByRoomId(roomId) = {} /\ StartJoinRoom(t, s, roomId, "amy")) => JoinRefused(s)
       /\ JoinRoomMember(t) =>
            LET me == tasks[t]
            IN IF ActiveIn(me.roomId, me.userId)
                 THEN /\ sockets' = SetSocket(me.socket,
                                              [rooms |-> sockets[me.socket].rooms \cup {me.roomId}])
                      /\ Event("joined_room", {me.socket}) \in resp'.events
                 ELSE JoinRefused(me.socket)]_vars

\* the user who left the group was refused while a member is in its room
C25_Witness ==
  /\ resp.op = "join_room"
  /\ Emitted("error") # {}
  /\ "userId" \in DOMAIN resp
  /\ resp.userId = "cat"
  /\ resp.roomId = GroupId
  /\ InRoom(GroupId) # {}

\* the last event of a socket was one its handler could not carry out: a
\* typing event without roomId or userId, or a join_room that did not join
HandlerFailed ==
  \/ resp.op = "typing" /\ (resp.request.roomId = <<>> \/ resp.request.userId = NoUser)
  \/ resp.op = "join_room" /\ Emitted("joined_room") = {}

\* C26: whenever a real-time handler fails, an error event goes to the calling
\* socket and to no other, and the calling socket stays connected, in the
\* rooms it was in.
C26_FailureReportedToCaller ==
  HandlerFailed =>
    /\ resp.events = {Event("error", {resp.socket})}
    /\ sockets[resp.socket].open

\* C27: when a socket with a user identity disconnects, user_offline is sent
\* to all live sockets, also when the presence update in the store failed.
C27_OfflineBroadcastAttempted ==
  resp.op = "disconnect" => Emitted("user_offline") = {Event("user_offline", Live)}

\* C28: a mark_room_read whose room does not exist, or whose userId has no
\* active membership of the room, changes no message and no unreadCount, and
\* emits neither message_status_update nor unread_reset.
C28_MarkRoomReadNeedsMember ==
  [][\A t \in Tasks, roomId \in EventRoomIds \ {<<>>}, userId \in Users :
       ~ActiveIn(roomId, userId) =>
         /\ StartMarkRoomRead(t, roomId, userId) => UNCHANGED <<messages, members>>
         /\ (At(t, "mark_room_read", "mrr_member") /\ tasks[t].roomId = roomId
               /\ tasks[t].userId = userId /\ MarkRoomReadMember(t)) =>
              /\ UNCHANGED <<messages, members>>
              /\ resp'.event = "error"]_vars

\* C29: a request of the REST API that fails for a missing room, user or
\* membership, or for an invalid input, is answered with the client-error
\* envelope (status "fail", 4xx), never with the server-error one.
C29_ClientErrorEnvelope ==
  /\ (resp.op = "getMessages" /\ resp.status # 200) =>
       resp.envelope = "fail" /\ resp.status \in 400..499
  /\ (resp.op = "read" /\ resp.status # 200) => resp.status \in 400..499

(***************************************************************************)
(* SpecCount: sends, two at a time, any of which may fail at a store       *)
(* access, and read acknowledgments, in the group and the DM.              *)
(***************************************************************************)
NextCount ==
  \/ SendMessageStart(2)
  \/ \E t \in Tasks : SendMessageCreate(t)
  \/ \E t \in Tasks : SendMessageUpdateRoom(t)
  \/ \E t \in Tasks : SendMessageIncrement(t)
  \/ \E t \in Tasks : SendMessageCatch(t)
  \/ \E roomId \in EventRoomIds \ {<<>>}, userId \in Users : RestMarkAsRead(roomId, userId)

SpecCount == InitUnread /\ [][NextCount]_vars

\* the messages of the room of a membership that others sent
FromOthers(m) ==
  {i \in 1..Len(messages) :
     /\ \E r \in rooms : r.id = m.room /\ messages[i].roomId = r.roomId
     /\ messages[i].senderId # m.user}

\* C30: in every state, also in the middle of a send and after a send failed
\* between two store accesses, the unreadCount of a membership is at most the
\* number of persisted messages of its room that another user sent.
C30_NeverOverCounted == \A m \in members : m.unreadCount <= Cardinality(FromOthers(m))

\* a send failed after its message was persisted, another send is under way,
\* and an active member is under-counted
C30_Witness ==
  /\ resp.op = "send_message"
  /\ resp.event = "error"
  /\ \E t \in Tasks : At(t, "send_message", "sm_unread")
  /\ \E m \in members :
       /\ m.leftAt = Null
       /\ m.unreadCount + 1 < Cardinality(FromOthers(m))

(***************************************************************************)
(* SpecInc: sends, two at a time, in the group and the DM; nobody reads,   *)
(* nobody leaves and no store access fails.                                *)
(***************************************************************************)
NextInc ==
  \/ SendMessageStart(2)
  \/ \E t \in Tasks : SendMessageCreate(t)
  \/ \E t \in Tasks : SendMessageUpdateRoom(t)
  \/ \E t \in Tasks : SendMessageIncrement(t)

SpecInc == InitUnread /\ [][NextInc]_vars

\* the sends of others in the room of a membership that have persisted their
\* message and not yet incremented
PendingFor(m) ==
  {t \in Tasks : /\ tasks[t].op = "send_message"
                 /\ tasks[t].pc \in {"sm_room", "sm_unread"}
                 /\ tasks[t].room = m.room
                 /\ tasks[t].userId # m.user}

\* C31: no unread increment is lost: while nobody reads or leaves, the
\* unreadCount of an active membership is the number of messages others sent
\* to its room less the sends that have not incremented yet, so it has grown
\* by exactly the number of sends of others that completed, however the
\* handlers interleave.
C31_NoLostIncrement ==
  \A m \in members :
    m.leftAt = Null => m.unreadCount = Cardinality(FromOthers(m)) - Cardinality(PendingFor(m))

\* two sends to one room overlapped and the later one finished first
C31_Witness ==
  /\ resp.op = "send_message"
  /\ resp.event = "receive_message"
  /\ resp.id = 2
  /\ \E t \in Tasks : /\ At(t, "send_message", "sm_unread")
                       /\ tasks[t].message = 1
                       /\ tasks[t].roomId = resp.roomId
  /\ \E m \in members : m.leftAt = Null /\ m.unreadCount = 1 /\ PendingFor(m) # {}

\* C32: a redundant status transition is a no-op: markAsDelivered of a message
\* that is Delivered or Read leaves the message as it was and reports no
\* error, and markAsRead of messages that are Read leaves them as they were.
C32_RedundantTransitionNoOp ==
  [][/\ \A messageId \in 1..Len(messages), roomId \in KnownRoomIds :
          (messages[messageId].status \in {"Delivered", "Read"}
             /\ handleMessageDelivered(messageId, roomId)) =>
            messages' = messages /\ resp'.event # "error"
     /\ \A data \in ReadRequests, roomId \in KnownRoomIds :
          (RequestIds(data) # {} /\ NotYetRead(RequestIds(data)) = {}
             /\ handleMessageRead(data, roomId)) =>
            messages' = messages /\ resp'.event # "error"]_vars

(***************************************************************************)
(* SpecLeaveRace: amy and bob send to their group while they leave it or   *)
(* amy removes bob, two handlers at once.                                  *)
(***************************************************************************)
NextLeaveRace ==
  \/ \E t \in Tasks, userId \in Actors :
       Admit(t, 2) /\ StartSendMessage(t, GroupId, userId, <<104, 105>>)
  \/ \E t \in Tasks : SendMessageCreate(t)
  \/ \E t \in Tasks : SendMessageUpdateRoom(t)
  \/ \E t \in Tasks : SendMessageIncrement(t)
  \/ \E t \in Tasks, userId \in Actors : Admit(t, 2) /\ StartLeave(t, GroupId, userId)
  \/ \E t \in Tasks : LeaveSave(t)
  \/ \E t \in Tasks : LeaveFindAdmins(t)
  \/ \E t \in Tasks : LeaveFindOldest(t)
  \/ \E t \in Tasks : LeavePromote(t)
  \/ \E t \in Tasks :
       Admit(t, 2) /\ StartRemoveMember(t, GroupId, "amy", UsernameOf("bob"))
  \/ \E t \in Tasks : RemoveUpdate(t)

SpecLeaveRace == InitAck /\ [][NextLeaveRace]_vars

\* C33: a Message row is written only for a sender who is an active member
\* of the room at the moment of the write, also when a leave or a removal of
\* the sender runs between the membership check of the send and its write.
C33_SenderActiveAtWrite ==
  [][\A t \in Tasks :
       (SendMessageCreate(t) /\ messages' # messages) =>
         isUserInRoom(tasks[t].room, tasks[t].userId)]_vars

(***************************************************************************)
(* SpecLive: sockets connect and emit join_room, send_message,             *)
(* message_delivered, message_read and mark_room_read in the DM, two       *)
(* handlers at once, one send at a time while the DM is empty; every store *)
(* access a handler waits for returns.                                     *)
(***************************************************************************)
\* the next store access of the handler in slot t returns
Returns(t) ==
  \/ ConnectFindMemberships(t)
  \/ ConnectFindRooms(t)
  \/ ConnectOnline(t)
  \/ JoinRoomMember(t)
  \/ SendMessageCreate(t)
  \/ SendMessageUpdateRoom(t)
  \/ SendMessageIncrement(t)
  \/ SendMessageCatch(t)
  \/ MarkRoomReadFind(t)
  \/ MarkRoomReadMember(t)

NextLive ==
  \/ \E t \in Tasks : Admit(t, 1) /\ Connect(t, 1, "amy")
  \/ \E t \in Tasks, roomId \in EventRoomIds \ {<<>>}, userId \in {"amy", "cat"} :
       Admit(t, 1) /\ StartJoinRoom(t, 1, roomId, userId)
  \/ \E t \in Tasks, roomId \in EventRoomIds :
       /\ messages = <<>> /\ \A x \in Tasks : tasks[x].op # "send_message"
       /\ Admit(t, 2) /\ StartSendMessage(t, roomId, "amy", <<104, 105>>)
  \/ \E messageId \in {1, Null} : handleMessageDelivered(messageId, DMId)
  \/ \E data \in {[messageId |-> 1], [messageIds |-> {}]} : handleMessageRead(data, DMId)
  \/ \E t \in Tasks, userId \in {"bob", "cat"} :
       Admit(t, 2) /\ StartMarkRoomRead(t, DMId, userId)
  \/ \E t \in Tasks : Returns(t)

SpecLive == InitStatus /\ [][NextLive]_vars /\ \A t \in Tasks : WF_vars(Returns(t))

\* the events whose handlers C34 is about
HandlerOps == {"join_room", "send_message", "message_delivered", "message_read", "mark_room_read"}

\* the answer of a handler is its success emission or an error to the caller
OneOutcome(r) ==
  IF "events" \in DOMAIN r
    THEN Cardinality({e.event : e \in r.events} \cap {"joined_room", "error"}) = 1
    ELSE /\ "event" \in DOMAIN r
         /\ r.event \in {"receive_message", "message_status_update", "unread_reset", "error"}

\* C34: when every store access returns, every join_room, send_message,
\* message_delivered, message_read and mark_room_read handler finishes, and
\* it finishes with its success emission or with an error event, never with
\* both and never with neither.
C34_HandlersFinishWithOneOutcome ==
  /\ \A t \in Tasks : (tasks[t].op \in HandlerOps) ~> Free(t)
  /\ [][\A t \in Tasks :
          (tasks[t].op \in HandlerOps /\ tasks'[t] = Idle) =>
            resp'.op = tasks[t].op /\ OneOutcome(resp')]_vars
  /\ [](resp.op \in HandlerOps => OneOutcome(resp))

\* a send failed at a store access while another handler was under way
C34_Witness ==
  /\ resp.op = "send_message"
  /\ resp.event = "error"
  /\ resp.message = "Failed to send message"
  /\ \E t \in Tasks : tasks[t].op = "mark_room_read"

\* the users with a connected socket
LiveUsers == {sockets[s].userId : s \in Live}

\* C35: whenever no connect or disconnect handler is in flight, a user's
\* isOnline is true exactly if the user has a live socket.
C35_OnlineIffLive ==
  (\A t \in Tasks : tasks[t].op # "connect") => \A u \in Users : u \in online <=> u \in LiveUsers

\* C36: reactivating a membership through addMembers changes only its leftAt,
\* which is cleared, and its joinedAt: its role and its unreadCount stay as
\* they were when the user left or was removed, and no other membership
\* changes.
C36_ReactivationKeepsRoleAndCount ==
  [][\A t \in Tasks :
       AddReactivate(t) =>
         \E m \in members :
           /\ m.id = tasks[t].row
           /\ members' = (members \ {m}) \cup
                           {[m EXCEPT !.leftAt = Null, !.joinedAt = tasks[t].at]}]_vars

\* a former admin with unread messages was re-added: the group has two
\* active admins
C36_Witness ==
  /\ resp.op = "add"
  /\ resp.status = 200
  /\ resp.reactivatedCount = 1
  /\ \E r \in rooms :
       /\ Cardinality(ActiveAdmins(r.id)) = 2
       /\ \E m \in ActiveAdmins(r.id) : m.unreadCount > 0

(***************************************************************************)
(* SpecDMFrame: addMembers, removeMember and leave addressed to the DM     *)
(* rooms and to the group, and createOrGetDM of amy with bob and with cat, *)
(* one request at a time.                                                  *)
(***************************************************************************)
NextDMFrame ==
  \/ \E t \in Tasks, o \in {"bob", "cat"} :
       Admit(t, 1) /\ StartDM(t, "amy", UsernameOf("amy"), UsernameOf(o))
  \/ \E t \in Tasks : DMStep(t)
  \/ \E t \in Tasks, roomId \in KnownRoomIds, u \in DMPair, l \in {<<>>, <<UsernameOf("cat")>>} :
       Admit(t, 1) /\ StartAddMembers(t, roomId, u, l)
  \/ \E t \in Tasks, roomId \in KnownRoomIds, u \in DMPair, n \in {<<>>, UsernameOf("bob")} :
       Admit(t, 1) /\ StartRemoveMember(t, roomId, u, n)
  \/ \E t \in Tasks, roomId \in KnownRoomIds, u \in DMPair :
       Admit(t, 1) /\ StartLeave(t, roomId, u)
  \/ \E t \in Tasks, u \in Users : AddFindExisting(t, u)
  \/ \E t \in Tasks : AddReactivate(t)
  \/ \E t \in Tasks : RemoveUpdate(t)
  \/ \E t \in Tasks : LeaveSave(t)
  \/ \E t \in Tasks : LeaveFindAdmins(t)
  \/ \E t \in Tasks : LeaveFindOldest(t)
  \/ \E t \in Tasks : LeavePromote(t)

SpecDMFrame == InitUnread /\ [][NextDMFrame]_vars

\* the roomIds of the rooms of type dm
DMRoomIds == {r.roomId : r \in {x \in rooms : x.type = "dm"}}

\* the membership rows of the rooms of type dm
DMRows == {m \in members : \E r \in rooms : r.type = "dm" /\ m.room = r.id}

\* a membership request addressed to a DM room is answered 404, or 400 for an
\* empty body where the body is validated first, and changes no membership row
DMRequestsFail(bodyFirst) ==
  \A t \in Tasks, roomId \in DMRoomIds, u \in DMPair :
    /\ \A l \in {<<>>, <<UsernameOf("cat")>>} :
         StartAddMembers(t, roomId, u, l) =>
           /\ resp'.status = IF bodyFirst /\ l = <<>> THEN 400 ELSE 404
           /\ members' = members
    /\ \A n \in {<<>>, UsernameOf("bob")} :
         StartRemoveMember(t, roomId, u, n) =>
           /\ resp'.status = IF bodyFirst /\ n = <<>> THEN 400 ELSE 404
           /\ members' = members
    /\ StartLeave(t, roomId, u) => resp'.status = 404 /\ members' = members

\* no row of a DM room changes, and once createOrGetDM is done every DM room
\* has two rows, both active with role member
DMRowsFixed ==
  /\ [][DMRows \subseteq members']_vars
  /\ []((\A t \in Tasks : tasks[t].op # "dm") =>
         \A r \in rooms :
           r.type = "dm" =>
             /\ Cardinality({m \in members : m.room = r.id}) = 2
             /\ \A m \in {m \in members : m.room = r.id} : m.leftAt = Null /\ m.role = "member")

\* C37: addMembers, removeMember and leave addressed to a DM room fail with
\* 404 and change no membership row; the rows of a DM room never change.
C37_DMMembershipFixed == [][DMRequestsFail(FALSE)]_vars /\ DMRowsFixed

\* C37, with the validation of the request body coming first: addMembers,
\* removeMember and leave addressed to a DM room fail with 404, or with 400
\* when the body is invalid, and change no membership row; the rows of a DM
\* room never change.
C37_DMMembershipFixed_BodyFirst == [][DMRequestsFail(TRUE)]_vars /\ DMRowsFixed

\* amy's addMembers addressed to the DM of amy and cat was answered 404
C37_Witness ==
  /\ resp.op = "add"
  /\ resp.status = 404
  /\ Cardinality(DMRoomIds) = 2
  /\ Cardinality(DMRows) = 4

\* C38: the timestamps of every message agree with its status: readAt is set
\* exactly if the status is Read, deliveredAt is unset while the status is
\* Sent, and a Delivered message has deliveredAt set and readAt unset.
C38_TimestampsAgreeWithStatus ==
  \A i \in 1..Len(messages) :
    LET m == messages[i]
    IN /\ (m.readAt # Null) <=> (m.status = "Read")
       /\ m.status = "Sent" => m.deliveredAt = Null
       /\ m.status = "Delivered" => m.deliveredAt # Null /\ m.readAt = Null

(***************************************************************************)
(* SpecKick: amy and bob connect and send to their group; bob leaves or is *)
(* removed by amy, and amy adds bob again; one handler at a time.          *)
(***************************************************************************)
NextKick ==
  \/ \E t \in Tasks, s \in SocketIds, userId \in Actors : Admit(t, 1) /\ Connect(t, s, userId)
  \/ \E t \in Tasks : ConnectFindMemberships(t)
  \/ \E t \in Tasks : ConnectFindRooms(t)
  \/ \E t \in Tasks : ConnectOnline(t)
  \/ \E t \in Tasks, userId \in Actors :
       Admit(t, 1) /\ StartSendMessage(t, GroupId, userId, <<104, 105>>)
  \/ \E t \in Tasks : SendMessageCreate(t)
  \/ \E t \in Tasks : SendMessageUpdateRoom(t)
  \/ \E t \in Tasks : SendMessageIncrement(t)
  \/ \E t \in Tasks : Admit(t, 1) /\ StartLeave(t, GroupId, "bob")
  \/ \E t \in Tasks : LeaveSave(t)
  \/ \E t \in Tasks : Admit(t, 1) /\ StartRemoveMember(t, GroupId, "amy", UsernameOf("bob"))
  \/ \E t \in Tasks : RemoveUpdate(t)
  \/ \E t \in Tasks : Admit(t, 1) /\ StartAddMembers(t, GroupId, "amy", <<UsernameOf("bob")>>)
  \/ \E t \in Tasks, u \in Users : AddFindExisting(t, u)
  \/ \E t \in Tasks : AddReactivate(t)

SpecKick == InitAck /\ [][NextKick]_vars

\* C39: once a leave or a removal of a user has completed, receive_message
\* for a message sent to the room afterwards reaches no socket of that user,
\* unless the user was added again: with one handler at a time, every socket
\* a receive_message goes to is a socket of an active member of the room.
C39_NoDeliveryAfterLeave ==
  (resp.op = "send_message" /\ resp.event = "receive_message") =>
    \A s \in InRoom(resp.to) : ActiveIn(resp.roomId, sockets[s].userId)

\* C40: what a socket does is attributed to the user of its handshake: the
\* user whose membership lets a socket into a room by join_room is the
\* userId of the socket, not a userId of the payload.
C40_ActsAsHandshakeUser ==
  (resp.op = "join_room" /\ Emitted("joined_room") # {}) =>
    resp.userId = sockets[resp.socket].userId

====
